---- MODULE Spec2Model ----
(***************************************************************************)
(* Email LLM Processor: the message lifecycle (processEmail,               *)
(* shouldAutoReply, generateReply) of the module-level emailService and of *)
(* the class EmailService, driven by the Camel routes email-processor and  *)
(* email-auto-responder, over the emails table and the tone classifier.    *)
(***************************************************************************)
EXTENDS Integers, Sequences, FiniteSets, TLC

VARIABLES
    service,    \* which emailService is bound in the registry: "module" or "class"
    db,         \* the emails table: row id -> [status, tone_analysis, processed_date]
    trail,      \* history: per row, the values it was written with and the status changes made
    exch,       \* the exchanges travelling through the routes
    sent,       \* reply bodies handed to the smtp endpoint: {[exchange, text]}
    clock       \* per row, the instants new Date() has given the runs over that message

vars == <<service, db, trail, exch, sent, clock>>

(***************************************************************************)
(* Bounds of the model                                                     *)
(***************************************************************************)
MaxRecords == 1       \* rows the emails table may hold
MaxRuns == 3          \* processEmail runs that reach a row, in one behaviour
NumExchanges == 1     \* exchanges in flight

Exchanges == 1..NumExchanges

(***************************************************************************)
(* Enumerations (models/toneAnalysis.js, models/emailMessage.js)           *)
(***************************************************************************)
Sentiment == {"VERY_NEGATIVE", "NEGATIVE", "NEUTRAL", "POSITIVE", "VERY_POSITIVE"}

Emotion == {"ANGER", "FEAR", "HAPPINESS", "SADNESS", "SURPRISE", "DISGUST", "NEUTRAL"}

Urgency == {"LOW", "NORMAL", "HIGH", "CRITICAL"}

Formality == {"VERY_INFORMAL", "INFORMAL", "NEUTRAL", "FORMAL", "VERY_FORMAL"}

EmailStatus == {"RECEIVED", "PROCESSING", "PROCESSED", "REPLIED", "ERROR"}

\* JavaScript null / undefined
Null == [null |-> TRUE]

\* a Date column or field that is null
NullDate == 0

(***************************************************************************)
(* Strings: String.prototype.includes, toLowerCase, split(/\W+/)           *)
(***************************************************************************)
UpperChars == "ABCDEFGHIJKLMNOPQRSTUVWXYZ"

LowerChars == "abcdefghijklmnopqrstuvwxyz"

DigitChars == "0123456789"

CharAt(s, i) == SubSeq(s, i, i)

InChars(c, chars) == \E i \in 1..Len(chars) : CharAt(chars, i) = c

LowerChar(c) ==
    IF InChars(c, UpperChars)
    THEN CharAt(LowerChars, CHOOSE i \in 1..Len(UpperChars) : CharAt(UpperChars, i) = c)
    ELSE c

RECURSIVE toLowerCase(_)
\* character by character; the string is halved so that long texts stay shallow
toLowerCase(s) ==
    IF Len(s) = 0 THEN ""
    ELSE IF Len(s) = 1 THEN LowerChar(s)
    ELSE LET half == Len(s) \div 2
         IN toLowerCase(SubSeq(s, 1, half)) \o toLowerCase(SubSeq(s, half + 1, Len(s)))

includes(s, kw) ==
    \E i \in 1..(Len(s) - Len(kw) + 1) : SubSeq(s, i, i + Len(kw) - 1) = kw

\* \w of a JavaScript regular expression
IsWordChar(c) == InChars(c, UpperChars) \/ InChars(c, LowerChars) \/ InChars(c, DigitChars) \/ c = "_"

\* the white space String.prototype.trim removes
IsSpaceChar(c) == c \in {" ", "\t", "\n", "\r"}

RECURSIVE trimIsEmpty(_)
\* content.trim() === ''
trimIsEmpty(s) ==
    IF Len(s) = 0 THEN TRUE
    ELSE IsSpaceChar(CharAt(s, 1)) /\ trimIsEmpty(SubSeq(s, 2, Len(s)))

\* the positions at which a maximal run of word characters starts
WordStarts(s) ==
    {i \in 1..Len(s) : IsWordChar(CharAt(s, i)) /\ (i = 1 \/ ~IsWordChar(CharAt(s, i - 1)))}

\* the position at which the run of word characters that starts at i ends
WordEnd(s, i) ==
    CHOOSE j \in i..Len(s) :
        /\ \A k \in i..j : IsWordChar(CharAt(s, k))
        /\ (j = Len(s) \/ ~IsWordChar(CharAt(s, j + 1)))

RECURSIVE SplitFrom(_, _)
\* the runs of word characters of s from position i on, in order
SplitFrom(s, i) ==
    LET starts == {k \in WordStarts(s) : k >= i}
    IN IF starts = {} THEN <<>>
       ELSE LET b == CHOOSE k \in starts : \A o \in starts : k <= o
                e == WordEnd(s, b)
            IN <<SubSeq(s, b, e)>> \o SplitFrom(s, e + 1)

\* s.split(/\W+/): the pieces between maximal runs of non-word characters;
\* a leading or trailing separator yields an empty first or last piece
splitNonWord(s) ==
    IF Len(s) = 0 THEN <<"">>
    ELSE (IF IsWordChar(CharAt(s, 1)) THEN <<>> ELSE <<"">>) \o SplitFrom(s, 1) \o
         (IF IsWordChar(CharAt(s, Len(s))) THEN <<>> ELSE <<"">>)

(***************************************************************************)
(* ToneAnalysis (models/toneAnalysis.js)                                   *)
(***************************************************************************)
\* new ToneAnalysis({...}); emotion weights are kept in tenths (0.8 -> 8)
ToneAnalysis(sentiment, emotions, urgency, formality, topTopics, summaryText) ==
    [sentiment |-> sentiment, emotions |-> emotions, urgency |-> urgency,
     formality |-> formality, topTopics |-> topTopics, summaryText |-> summaryText]

createDefault ==
    ToneAnalysis("NEUTRAL", [e \in {"NEUTRAL"} |-> 10], "NORMAL", "NEUTRAL", <<>>,
                 "Nie mozna przeanalizowac tresci wiadomosci.")

\* toneAnalysis.toJson(): the JSON text of the six fields
toJson(t) ==
    [json |-> <<t.sentiment, t.emotions, t.urgency, t.formality, t.topTopics, t.summaryText>>]

(***************************************************************************)
(* llmService.mockAnalysis                                                 *)
(***************************************************************************)
\* a keyword set that matches only when every keyword of it is in the text
includesAny_every(s, kws) == \A kw \in kws : includes(s, kw)

includesAny(s, kws) == \E kw \in kws : includes(s, kw)

\* the sentiment branches with the very-negative keywords tested first
mockSentiment_veryNegativeFirst(lowerContent) ==
    IF includesAny(lowerContent, {"angry", "frustrated", "terrible"}) THEN "VERY_NEGATIVE"
    ELSE IF includesAny(lowerContent, {"problem", "error", "issue"}) THEN "NEGATIVE"
    ELSE IF includesAny(lowerContent, {"thanks", "good", "happy"}) THEN "POSITIVE"
    ELSE IF includesAny(lowerContent, {"excellent", "amazing", "great"}) THEN "VERY_POSITIVE"
    ELSE "NEUTRAL"

mockSentiment(lowerContent) ==
    IF includesAny(lowerContent, {"problem", "error", "issue"}) THEN "NEGATIVE"
    ELSE IF includesAny(lowerContent, {"angry", "frustrated", "terrible"}) THEN "VERY_NEGATIVE"
    ELSE IF includesAny(lowerContent, {"thanks", "good", "happy"}) THEN "POSITIVE"
    ELSE IF includesAny(lowerContent, {"excellent", "amazing", "great"}) THEN "VERY_POSITIVE"
    ELSE "NEUTRAL"

\* the emotions object after the sentiment branch has assigned into it
mockEmotions(sentiment) ==
    CASE sentiment = "NEGATIVE" -> [e \in {"NEUTRAL", "SADNESS"} |-> IF e = "SADNESS" THEN 5 ELSE 3]
      [] sentiment = "VERY_NEGATIVE" ->
            [e \in {"NEUTRAL", "ANGER", "SADNESS"} |->
                IF e = "ANGER" THEN 7 ELSE IF e = "SADNESS" THEN 2 ELSE 8]
      [] sentiment = "POSITIVE" -> [e \in {"NEUTRAL", "HAPPINESS"} |-> IF e = "HAPPINESS" THEN 6 ELSE 4]
      [] sentiment = "VERY_POSITIVE" ->
            [e \in {"NEUTRAL", "HAPPINESS", "SURPRISE"} |->
                IF e = "HAPPINESS" THEN 8 ELSE IF e = "SURPRISE" THEN 2 ELSE 8]
      [] OTHER -> [e \in {"NEUTRAL"} |-> 8]

\* the urgency branches without the keyword asap
mockUrgency_withoutAsap(lowerContent) ==
    IF includesAny(lowerContent, {"urgent", "immediately"}) THEN "HIGH"
    ELSE IF includesAny(lowerContent, {"critical", "emergency"}) THEN "CRITICAL"
    ELSE IF includesAny(lowerContent, {"when you have time", "no rush"}) THEN "LOW"
    ELSE "NORMAL"

mockUrgency(lowerContent) ==
    IF includesAny(lowerContent, {"urgent", "asap", "immediately"}) THEN "HIGH"
    ELSE IF includesAny(lowerContent, {"critical", "emergency"}) THEN "CRITICAL"
    ELSE IF includesAny(lowerContent, {"when you have time", "no rush"}) THEN "LOW"
    ELSE "NORMAL"

mockFormality(lowerContent) ==
    IF includesAny(lowerContent, {"dear sir", "yours sincerely", "to whom it may concern"}) THEN "FORMAL"
    ELSE IF includesAny(lowerContent, {"hey", "btw", "lol"}) THEN "INFORMAL"
    ELSE "NEUTRAL"

StopWords == {"from", "this", "that", "with", "have", "your"}

TopicCount == 4

SummaryLength == 100

\* lowerContent.split(/\W+/).filter(w => w.length > 3 && !stop.includes(w))
topicWords(lowerContent) ==
    SelectSeq(splitNonWord(lowerContent), LAMBDA w : Len(w) > 3 /\ w \notin StopWords)

digitOf(c) == (CHOOSE i \in 1..Len(DigitChars) : CharAt(DigitChars, i) = c) - 1

RECURSIVE digitsLess(_, _)
\* numeric a < b for digit strings without leading zeros
digitsLess(a, b) ==
    IF Len(a) # Len(b) THEN Len(a) < Len(b)
    ELSE IF Len(a) = 0 THEN FALSE
    ELSE IF CharAt(a, 1) # CharAt(b, 1) THEN digitOf(CharAt(a, 1)) < digitOf(CharAt(b, 1))
    ELSE digitsLess(SubSeq(a, 2, Len(a)), SubSeq(b, 2, Len(b)))

\* the largest array index, 2^32 - 2
MaxIndexKey == "4294967294"

\* a property key that is a canonical array index: Object.entries lists such
\* keys first, in ascending numeric order, before the other keys
IsIndexKey(w) ==
    /\ Len(w) > 0
    /\ \A i \in 1..Len(w) : InChars(CharAt(w, i), DigitChars)
    /\ (Len(w) = 1 \/ CharAt(w, 1) # "0")
    /\ (w = MaxIndexKey \/ digitsLess(w, MaxIndexKey))

RECURSIVE firstOccurrences(_, _)
\* the distinct words in the order in which wordCounts first receives them
firstOccurrences(words, seen) ==
    IF Len(words) = 0 THEN <<>>
    ELSE IF Head(words) \in seen THEN firstOccurrences(Tail(words), seen)
    ELSE <<Head(words)>> \o firstOccurrences(Tail(words), seen \cup {Head(words)})

RECURSIVE ascendingKeys(_)
ascendingKeys(keys) ==
    IF keys = {} THEN <<>>
    ELSE LET least == CHOOSE k \in keys : \A o \in keys : ~digitsLess(o, k)
         IN <<least>> \o ascendingKeys(keys \ {least})

\* Object.entries(wordCounts): index keys ascending, then insertion order
entriesOrder(words) ==
    LET inserted == firstOccurrences(words, {})
        indexKeys == {inserted[i] : i \in {j \in 1..Len(inserted) : IsIndexKey(inserted[j])}}
    IN ascendingKeys(indexKeys) \o SelectSeq(inserted, LAMBDA w : ~IsIndexKey(w))

wordCount(words, w) == Cardinality({i \in 1..Len(words) : words[i] = w})

RECURSIVE sortByCount(_, _)
\* the stable sort((a, b) => b[1] - a[1]) of the entries
sortByCount(keys, words) ==
    IF Len(keys) = 0 THEN <<>>
    ELSE LET best == CHOOSE i \in 1..Len(keys) :
                        /\ \A j \in 1..Len(keys) : wordCount(words, keys[j]) <= wordCount(words, keys[i])
                        /\ \A j \in 1..(i - 1) : wordCount(words, keys[j]) < wordCount(words, keys[i])
         IN <<keys[best]>> \o
            sortByCount(SubSeq(keys, 1, best - 1) \o SubSeq(keys, best + 1, Len(keys)), words)

\* q.slice(0, n)
slice(q, n) == SubSeq(q, 1, IF Len(q) < n THEN Len(q) ELSE n)

\* Object.entries(wordCounts).sort((a, b) => b[1] - a[1]), as the keys
sortedEntries(words) == sortByCount(entriesOrder(words), words)

\* the topics without .slice(0, 4)
mockTopTopics_withoutSlice(lowerContent) == sortedEntries(topicWords(lowerContent))

mockTopTopics(lowerContent) == slice(sortedEntries(topicWords(lowerContent)), TopicCount)

mockSummary(content) ==
    IF Len(content) > SummaryLength THEN SubSeq(content, 1, SummaryLength) \o "..." ELSE content

mockAnalysis(content) ==
    LET lowerContent == toLowerCase(content)
        sentiment == mockSentiment(lowerContent)
    IN ToneAnalysis(sentiment, mockEmotions(sentiment), mockUrgency(lowerContent),
                    mockFormality(lowerContent), mockTopTopics(lowerContent), mockSummary(content))

(***************************************************************************)
(* llmService.analyzeTone.  A content value is [type, text]: a string, or  *)
(* another truthy JSON value (a number) that the manual API let through.   *)
(* The result is a ToneAnalysis, or Thrown when the call raises.           *)
(***************************************************************************)
Thrown == [thrown |-> TRUE]

\* analyzeTone that tests only !content, without content.trim() === ''
analyzeTone_withoutTrim(content) ==
    IF content.type = "string" /\ content.text = "" THEN createDefault
    ELSE IF content.type # "string" THEN Thrown
    ELSE mockAnalysis(content.text)

analyzeTone(content) ==
    IF content.type = "string" /\ content.text = "" THEN createDefault   \* !content
    ELSE IF content.type # "string" THEN Thrown                          \* content.trim is not a function
    ELSE IF trimIsEmpty(content.text) THEN createDefault
    ELSE mockAnalysis(content.text)

\* the content values an inbound message or a manual request may carry
RawContents ==
    {[type |-> "string", text |-> ""],
     [type |-> "string", text |-> "This is urgent, please help ASAP"],
     [type |-> "number", text |-> "5"]}

\* texts that carry one keyword of every chosen sentiment set
SentimentTexts ==
    {(IF "VERY_POSITIVE" \in s THEN "Great. " ELSE "") \o
     (IF "POSITIVE" \in s THEN "Thanks! " ELSE "") \o
     (IF "VERY_NEGATIVE" \in s THEN "I am ANGRY. " ELSE "") \o
     (IF "NEGATIVE" \in s THEN "There is a Problem" ELSE "Hello") :
        s \in SUBSET {"NEGATIVE", "VERY_NEGATIVE", "POSITIVE", "VERY_POSITIVE"}}

\* texts about urgency, formality, topics and the summary, the scenarios of
\* the documentation among them
ScenarioTexts ==
    {"", " ", "  \t\n", "\r\n",
     "This is urgent, please help ASAP",
     "Thanks, great service!",
     "Reply ASAP",
     "urgent and critical",
     "hey, urgent emergency, no rush lol",
     "Dear Sir, a critical error, no rush",
     "CRITICAL emergency with an error",
     "Immediately please",
     "no rush, when you have time",
     "An issue, no rush",
     "I am frustrated, this is terrible",
     "What a happy day, excellent and amazing",
     "Dear Sir, yours sincerely",
     "hey lol btw",
     "Invoice 2024 overdue",
     "order 1234 order 1234 from your shop",
     "refund 2024 refund 2023 2023 2024 payment",
     "alpha beta gamma delta epsilon zeta beta",
     "0123 parcel 4294967295 parcel 0123",
     "payment payment invoice invoice refund account order",
     "The delivery of the order that was placed with your online shop last month has not arrived at the address given"}

ClassifierContents == {[type |-> "string", text |-> t] : t \in SentimentTexts \cup ScenarioTexts}

ReplyTexts ==
    {"critical", "critical problem", "critical and terrible", "critical, thanks",
     "critical, great", "urgent", "urgent problem", "There is a problem", "This is terrible",
     "an error, see {from}", "Hello"}

ReplyContents == {[type |-> "string", text |-> t] : t \in ReplyTexts}

Headers == {[from |-> "client@example.com", to |-> "support@example.com", subject |-> "Help"]}

\* every content value a message of the model carries
Contents == RawContents \cup ClassifierContents \cup ReplyContents

\* llmService.analyzeTone as processEmail calls it: the analyses of the
\* contents above are worked out once
ToneOfContent == [c \in Contents |-> analyzeTone(c)]

llmService_analyzeTone(content) == ToneOfContent[content]

(***************************************************************************)
(* EmailMessage (models/emailMessage.js)                                   *)
(***************************************************************************)
\* an EmailMessage whose id is still null
NoId == 0

\* new EmailMessage({from, to, subject, content}): receivedDate = new Date(),
\* the other fields take their defaults
EmailMessage(from, to, subject, content, now) ==
    [id |-> NoId, from |-> from, to |-> to, subject |-> subject, content |-> content,
     receivedDate |-> now, processedDate |-> NullDate, toneAnalysis |-> Null,
     status |-> "RECEIVED"]

\* copy that does not hand receivedDate on, so that the constructor's default
\* new Date() applies
copy_withoutReceivedDate(email, toneAnalysis, processedDate, status) ==
    [email EXCEPT !.toneAnalysis = toneAnalysis, !.processedDate = processedDate,
                  !.status = status, !.receivedDate = processedDate]

\* email.copy({toneAnalysis, processedDate, status})
copy(email, toneAnalysis, processedDate, status) ==
    [email EXCEPT !.toneAnalysis = toneAnalysis, !.processedDate = processedDate,
                  !.status = status]

\* the analysis is an object JSON.parse made: it has no method toJson
isPlainObject(analysis) == analysis # Null /\ "class" \in DOMAIN analysis

\* EmailMessage.fromDb(dbObject) for the row with this id.  JSON.parse of the
\* text toJson wrote gives an object of class Object with the six members of
\* the text, and without the methods of ToneAnalysis.
fromDb(id, row, now) ==
    [id |-> id, from |-> row.from_address, to |-> row.to_address, subject |-> row.subject,
     content |-> row.content,
     receivedDate |-> IF row.received_date # NullDate THEN row.received_date ELSE now,
     processedDate |-> IF row.processed_date # NullDate THEN row.processed_date ELSE NullDate,
     toneAnalysis |->
         IF row.tone_analysis # Null
         THEN [class |-> "Object",
               sentiment |-> row.tone_analysis.json[1], emotions |-> row.tone_analysis.json[2],
               urgency |-> row.tone_analysis.json[3], formality |-> row.tone_analysis.json[4],
               topTopics |-> row.tone_analysis.json[5], summaryText |-> row.tone_analysis.json[6]]
         ELSE Null,
     status |-> row.status]

(***************************************************************************)
(* The emails table.  A store is [db, trail]: the rows, and for every row  *)
(* what was written to it: `moves`, the status changes <<from, to>> made   *)
(* to it, and `analysed`, whether it has held status PROCESSED together    *)
(* with a tone_analysis, so that the writes one handler makes in a row     *)
(* stay observable.                                                        *)
(***************************************************************************)
logWrite(tr, id, old, row) ==
    [tr EXCEPT ![id] =
        [moves |-> IF old.status = row.status THEN @.moves
                   ELSE @.moves \cup {<<old.status, row.status>>},
         analysed |-> @.analysed \/ (row.status = "PROCESSED" /\ row.tone_analysis # Null)]]

\* INSERT INTO emails (from_address, to_address, subject, content, received_date, status)
runInsert(st, email) ==
    LET row == [from_address |-> email.from, to_address |-> email.to,
                subject |-> email.subject, content |-> email.content,
                received_date |-> email.receivedDate, status |-> email.status,
                tone_analysis |-> Null, processed_date |-> NullDate]
    IN [db |-> Append(st.db, row),
        trail |-> Append(st.trail, [moves |-> {}, analysed |-> FALSE])]

\* the statement of updateEmailStatus without its WHERE clause: every row
\* takes the status
runUpdateStatus_everyRow(st, id, status) ==
    IF id \notin DOMAIN st.db THEN st
    ELSE [db |-> [r \in DOMAIN st.db |-> [st.db[r] EXCEPT !.status = status]],
          trail |-> [r \in DOMAIN st.db |->
                        logWrite(st.trail, r, st.db[r], [st.db[r] EXCEPT !.status = status])[r]]]

\* UPDATE emails SET status = ? WHERE id = ?
runUpdateStatus(st, id, status) ==
    IF id \notin DOMAIN st.db THEN st
    ELSE LET row == [st.db[id] EXCEPT !.status = status]
         IN [db |-> [st.db EXCEPT ![id] = row],
             trail |-> logWrite(st.trail, id, st.db[id], row)]

\* the statement of saveAnalysisResults as an INSERT: every call adds a record
runSaveAnalysis_inserting(st, email) ==
    LET row == [from_address |-> email.from, to_address |-> email.to,
                subject |-> email.subject, content |-> email.content,
                received_date |-> email.receivedDate, status |-> email.status,
                tone_analysis |-> IF email.toneAnalysis # Null
                                  THEN toJson(email.toneAnalysis) ELSE Null,
                processed_date |-> email.processedDate]
    IN [db |-> Append(st.db, row),
        trail |-> Append(st.trail, [moves |-> {}, analysed |-> FALSE])]

\* UPDATE emails SET tone_analysis = ?, processed_date = ?, status = ? WHERE id = ?
runSaveAnalysis(st, email) ==
    IF email.id \notin DOMAIN st.db THEN st
    ELSE LET row == [st.db[email.id] EXCEPT
                        !.tone_analysis = IF email.toneAnalysis # Null
                                          THEN toJson(email.toneAnalysis) ELSE Null,
                        !.processed_date = email.processedDate,
                        !.status = email.status]
         IN [db |-> [st.db EXCEPT ![email.id] = row],
             trail |-> logWrite(st.trail, email.id, st.db[email.id], row)]

(***************************************************************************)
(* services/emailService.js: the module-level service.  Every persistence  *)
(* function takes `fails`: whether getDb() or stmt.run() raises this time. *)
(***************************************************************************)
\* returns [st, id, threw]
saveEmailToDatabase(st, email, fails) ==
    IF fails THEN [st |-> st, id |-> NoId, threw |-> TRUE]
    ELSE [st |-> runInsert(st, email), id |-> Len(st.db) + 1, threw |-> FALSE]

\* returns [st, threw]: the catch logs and rethrows
updateEmailStatus(st, id, status, fails) ==
    IF fails THEN [st |-> st, threw |-> TRUE]
    ELSE [st |-> runUpdateStatus(st, id, status), threw |-> FALSE]

\* returns [st, threw]: the catch logs and rethrows, also the TypeError of
\* email.toneAnalysis.toJson() on an analysis without that method
saveAnalysisResults(st, email, fails) ==
    IF fails \/ isPlainObject(email.toneAnalysis) THEN [st |-> st, threw |-> TRUE]
    ELSE [st |-> runSaveAnalysis(st, email), threw |-> FALSE]

\* returns [st, email, threw]
extractEmailFromExchange(st, ex, now, fails) ==
    IF ex.body.kind = "email"
    THEN [st |-> st, email |-> ex.body.email, threw |-> FALSE]
    ELSE LET email == EmailMessage(ex.headers.from, ex.headers.to, ex.headers.subject,
                                   ex.body.content, now)
             saved == saveEmailToDatabase(st, email, fails)
         IN [st |-> saved.st, email |-> [email EXCEPT !.id = saved.id], threw |-> saved.threw]

\* what a call leaves behind: the store, the exchange body, whether it
\* returned or threw, the message it worked on, whether a persistence call
\* failed during it, and whether its catch block ran
Outcome(st, body, result, msg, dbFailed, caught) ==
    [st |-> st, body |-> body, result |-> result, msg |-> msg, dbFailed |-> dbFailed,
     caught |-> caught]

processEmail(st, ex, now, f) ==
    LET x == extractEmailFromExchange(st, ex, now, f.insert)
    IN IF x.threw THEN Outcome(x.st, ex.body, "threw", NoId, TRUE, TRUE)
       ELSE
       LET u == updateEmailStatus(x.st, x.email.id, "PROCESSING", f.update)
       IN IF u.threw THEN Outcome(u.st, ex.body, "threw", x.email.id, TRUE, TRUE)
          ELSE
          LET toneAnalysis == llmService_analyzeTone(x.email.content)
          IN IF toneAnalysis = Thrown
             THEN Outcome(u.st, ex.body, "threw", x.email.id, FALSE, TRUE)
             ELSE
             LET processedEmail == copy(x.email, toneAnalysis, now, "PROCESSED")
                 s == saveAnalysisResults(u.st, processedEmail, f.save)
             IN IF s.threw THEN Outcome(s.st, ex.body, "threw", x.email.id, TRUE, TRUE)
                ELSE Outcome(s.st, [kind |-> "email", email |-> processedEmail],
                             "returned", x.email.id, FALSE, FALSE)

\* shouldAutoReply without the test for VERY_NEGATIVE
shouldAutoReply_withoutVeryNegative(body) ==
    IF body.kind # "email" THEN FALSE
    ELSE LET analysis == body.email.toneAnalysis
         IN IF analysis = Null THEN FALSE
            ELSE \/ analysis.urgency = "HIGH"
                 \/ analysis.urgency = "CRITICAL"
                 \/ analysis.sentiment = "NEGATIVE"

\* the decision of the policy; a body that is no EmailMessage has no
\* toneAnalysis (or makes the property access raise, which the catch turns
\* into false)
shouldAutoReply(body) ==
    IF body.kind # "email" THEN FALSE
    ELSE LET analysis == body.email.toneAnalysis
         IN IF analysis = Null THEN FALSE
            ELSE \/ analysis.urgency = "HIGH"
                 \/ analysis.urgency = "CRITICAL"
                 \/ analysis.sentiment = "NEGATIVE"
                 \/ analysis.sentiment = "VERY_NEGATIVE"

\* the template switch with the sentiment looked at before the urgency
replyTemplate_sentimentFirst(analysis) ==
    IF analysis = Null THEN "DEFAULT_REPLY"
    ELSE CASE analysis.sentiment = "VERY_NEGATIVE" -> "VERY_NEGATIVE_REPLY"
           [] analysis.sentiment = "NEGATIVE" -> "NEGATIVE_REPLY"
           [] analysis.sentiment \in {"POSITIVE", "VERY_POSITIVE"} -> "POSITIVE_REPLY"
           [] OTHER ->
                CASE analysis.urgency = "CRITICAL" -> "URGENT_REPLY"
                  [] analysis.urgency = "HIGH" -> "HIGH_PRIORITY_REPLY"
                  [] OTHER -> "DEFAULT_REPLY"

\* the template switch of generateReply
replyTemplate(analysis) ==
    IF analysis = Null THEN "DEFAULT_REPLY"
    ELSE CASE analysis.urgency = "CRITICAL" -> "URGENT_REPLY"
           [] analysis.urgency = "HIGH" -> "HIGH_PRIORITY_REPLY"
           [] OTHER ->
                CASE analysis.sentiment = "VERY_NEGATIVE" -> "VERY_NEGATIVE_REPLY"
                  [] analysis.sentiment = "NEGATIVE" -> "NEGATIVE_REPLY"
                  [] analysis.sentiment \in {"POSITIVE", "VERY_POSITIVE"} -> "POSITIVE_REPLY"
                  [] OTHER -> "DEFAULT_REPLY"

\* the reply templates, without the diacritics of their Polish text
DEFAULT_REPLY ==
    "\nWitaj,\n\nDziekujemy za wiadomosc. To jest automatyczna odpowiedz.\n\nOtrzymalismy Twoja wiadomosc o temacie: \"{subject}\"\n\nZajmiemy sie nia tak szybko, jak to mozliwe.\n\nPozdrawiamy,\nSystem Email LLM Processor\n"

URGENT_REPLY ==
    "\nWitaj,\n\nDziekujemy za wiadomosc. To jest automatyczna odpowiedz.\n\nOtrzymalismy Twoja pilna wiadomosc o temacie: \"{subject}\"\n\nZauwazylismy, ze sprawa jest krytycznie wazna. Zajmiemy sie nia priorytetowo.\n\nPozdrawiamy,\nSystem Email LLM Processor\n"

HIGH_PRIORITY_REPLY ==
    "\nWitaj,\n\nDziekujemy za wiadomosc. To jest automatyczna odpowiedz.\n\nOtrzymalismy Twoja wazna wiadomosc o temacie: \"{subject}\"\n\nZauwazylismy, ze sprawa jest pilna. Zajmiemy sie nia tak szybko, jak to mozliwe.\n\nPozdrawiamy,\nSystem Email LLM Processor\n"

NEGATIVE_REPLY ==
    "\nWitaj,\n\nDziekujemy za wiadomosc. To jest automatyczna odpowiedz.\n\nOtrzymalismy Twoja wiadomosc o temacie: \"{subject}\"\n\nPrzepraszamy za wszelkie niedogodnosci. Postaramy sie rozwiazac problem jak najszybciej.\n\nPozdrawiamy,\nSystem Email LLM Processor\n"

VERY_NEGATIVE_REPLY ==
    "\nWitaj,\n\nDziekujemy za wiadomosc. To jest automatyczna odpowiedz.\n\nOtrzymalismy Twoja wiadomosc o temacie: \"{subject}\"\n\nBardzo nam przykro, ze pojawil sie problem. Z najwyzszym priorytetem zajmiemy sie Twoja sprawa.\n\nPozdrawiamy,\nSystem Email LLM Processor\n"

POSITIVE_REPLY ==
    "\nWitaj,\n\nDziekujemy za wiadomosc. To jest automatyczna odpowiedz.\n\nOtrzymalismy Twoja wiadomosc o temacie: \"{subject}\"\n\nDziekujemy za pozytywne informacje. Odpowiemy na Twoja wiadomosc wkrotce.\n\nPozdrawiamy,\nSystem Email LLM Processor\n"

\* the text of the template the switch of generateReply has chosen
TemplateText(template) ==
    CASE template = "URGENT_REPLY" -> URGENT_REPLY
      [] template = "HIGH_PRIORITY_REPLY" -> HIGH_PRIORITY_REPLY
      [] template = "NEGATIVE_REPLY" -> NEGATIVE_REPLY
      [] template = "VERY_NEGATIVE_REPLY" -> VERY_NEGATIVE_REPLY
      [] template = "POSITIVE_REPLY" -> POSITIVE_REPLY
      [] OTHER -> DEFAULT_REPLY

RECURSIVE expandReplacement(_, _, _, _)
\* the replacement string of String.prototype.replace with its patterns:
\* $$ is a dollar sign, $& the matched text and $' the text after the match
\* (the pattern for the text before the match, a dollar sign and a grave
\* accent, does not occur in the subjects, summaries and senders of the model)
expandReplacement(r, matched, before, after) ==
    IF ~includes(r, "$") THEN r
    ELSE LET at == CHOOSE i \in 1..Len(r) :
                      CharAt(r, i) = "$" /\ \A j \in 1..(i - 1) : CharAt(r, j) # "$"
             head == SubSeq(r, 1, at - 1)
         IN IF at < Len(r) /\ CharAt(r, at + 1) \in {"$", "&", "'"}
            THEN head \o (CASE CharAt(r, at + 1) = "$" -> "$"
                            [] CharAt(r, at + 1) = "&" -> matched
                            [] OTHER -> after)
                 \o expandReplacement(SubSeq(r, at + 2, Len(r)), matched, before, after)
            ELSE head \o "$" \o expandReplacement(SubSeq(r, at + 1, Len(r)), matched, before, after)

\* s.replace(pattern, replacement) with a string pattern: the first
\* occurrence only
replace(s, pattern, replacement) ==
    IF ~includes(s, pattern) THEN s
    ELSE LET at == CHOOSE i \in 1..(Len(s) - Len(pattern) + 1) :
                      /\ SubSeq(s, i, i + Len(pattern) - 1) = pattern
                      /\ \A j \in 1..(i - 1) : SubSeq(s, j, j + Len(pattern) - 1) # pattern
             before == SubSeq(s, 1, at - 1)
             after == SubSeq(s, at + Len(pattern), Len(s))
         IN before \o expandReplacement(replacement, pattern, before, after) \o after

\* a reply body: the text, and the template it was made from
ReplyText(template, text) == [kind |-> "reply", template |-> template, text |-> text]

\* the personalisation of generateReply
personalise(replyText, email, analysis) ==
    replace(replace(replace(replyText, "{subject}", email.subject),
                    "{summary}", IF analysis # Null THEN analysis.summaryText ELSE ""),
            "{from}", email.from)

generateReply(st, ex, f) ==
    LET email == ex.body.email
        analysis == email.toneAnalysis
        template == replyTemplate(analysis)
        replyText == personalise(TemplateText(template), email, analysis)
        u == updateEmailStatus(st, email.id, "REPLIED", f.update)
    IN IF u.threw
       THEN Outcome(u.st, ReplyText("DEFAULT_REPLY", DEFAULT_REPLY), "returned", email.id, TRUE, TRUE)
       ELSE Outcome(u.st, ReplyText(template, replyText), "returned", email.id, FALSE, FALSE)

(***************************************************************************)
(* class EmailService                                                      *)
(***************************************************************************)
\* the catch logs and returns: the caller cannot see the failure
EmailService_updateEmailStatus(st, id, status, fails) ==
    IF fails THEN [st |-> st, threw |-> FALSE]
    ELSE [st |-> runUpdateStatus(st, id, status), threw |-> FALSE]

\* the catch logs and returns: the caller cannot see the failure
EmailService_saveAnalysisResults(st, email, fails) ==
    IF fails \/ isPlainObject(email.toneAnalysis) THEN [st |-> st, threw |-> FALSE]
    ELSE [st |-> runSaveAnalysis(st, email), threw |-> FALSE]

\* the catch logs and rethrows
EmailService_saveEmailToDatabase(st, email, fails) ==
    IF fails THEN [st |-> st, id |-> NoId, threw |-> TRUE]
    ELSE [st |-> runInsert(st, email), id |-> Len(st.db) + 1, threw |-> FALSE]

EmailService_extractEmailFromExchange(st, ex, now, fails) ==
    IF ex.body.kind = "email"
    THEN [st |-> st, email |-> ex.body.email, threw |-> FALSE]
    ELSE LET email == EmailMessage(ex.headers.from, ex.headers.to, ex.headers.subject,
                                   ex.body.content, now)
             saved == EmailService_saveEmailToDatabase(st, email, fails)
         IN [st |-> saved.st, email |-> [email EXCEPT !.id = saved.id], threw |-> saved.threw]

\* this.llmService.analyzeTone(content): the injected classifier, which may
\* also fail as a collaborator
EmailService_classify(content, fails) ==
    IF fails THEN Thrown ELSE llmService_analyzeTone(content)

\* the catch block of processEmail: exchange.message.body is still the body
\* the call started with; only an EmailMessage has an id
EmailService_processEmailCatch(st, ex, msg, dbFailed, f) ==
    IF ex.body.kind = "email" /\ ex.body.email.id # NoId
    THEN LET u == EmailService_updateEmailStatus(st, ex.body.email.id, "ERROR", f.errorUpdate)
         IN Outcome(u.st, ex.body, "threw", msg, dbFailed \/ f.errorUpdate, TRUE)
    ELSE Outcome(st, ex.body, "threw", msg, dbFailed, TRUE)

EmailService_processEmail(st, ex, now, f) ==
    LET x == EmailService_extractEmailFromExchange(st, ex, now, f.insert)
    IN IF x.threw THEN EmailService_processEmailCatch(x.st, ex, NoId, TRUE, f)
       ELSE
       LET u == EmailService_updateEmailStatus(x.st, x.email.id, "PROCESSING", f.update)
           toneAnalysis == EmailService_classify(x.email.content, f.classify)
       IN IF toneAnalysis = Thrown
          THEN EmailService_processEmailCatch(u.st, ex, x.email.id, f.update, f)
          ELSE
          LET processedEmail == copy(x.email, toneAnalysis, now, "PROCESSED")
              s == EmailService_saveAnalysisResults(u.st, processedEmail, f.save)
          IN Outcome(s.st, [kind |-> "email", email |-> processedEmail], "returned",
                     x.email.id, f.update \/ f.save, FALSE)

\* shouldAutoReply that also replies whenever anger was detected
EmailService_shouldAutoReply_onAnger(body) ==
    IF body.kind # "email" THEN FALSE
    ELSE LET analysis == body.email.toneAnalysis
         IN IF analysis = Null THEN FALSE
            ELSE \/ analysis.urgency = "HIGH"
                 \/ analysis.urgency = "CRITICAL"
                 \/ analysis.sentiment = "NEGATIVE"
                 \/ analysis.sentiment = "VERY_NEGATIVE"
                 \/ "ANGER" \in DOMAIN analysis.emotions

EmailService_shouldAutoReply(body) ==
    IF body.kind # "email" THEN FALSE
    ELSE LET analysis == body.email.toneAnalysis
         IN IF analysis = Null THEN FALSE
            ELSE \/ analysis.urgency = "HIGH"
                 \/ analysis.urgency = "CRITICAL"
                 \/ analysis.sentiment = "NEGATIVE"
                 \/ analysis.sentiment = "VERY_NEGATIVE"

\* DEFAULT_REPLY of the class, without the diacritics of its Polish text
EmailService_DEFAULT_REPLY ==
    "\nWitaj,\n\nDziekujemy za wiadomosc o temacie: \"{subject}\".\n\nOtrzymalismy Twoja wiadomosc i zajmiemy sie nia wkrotce.\n\nPozdrawiamy,\nZespol Obslugi Klienta\n"

\* what awaiting this.advancedReplyService.generateReply(...) can give: a
\* reply text, or a rejection (template not found, history unavailable)
AdvancedReplyOutcomes == {"text", "throws"}

\* the number of prior messages from which a sender counts as frequent
FrequentThreshold == 3

\* the prior message counts the history store may report for a sender
PriorCounts == {0, 1, FrequentThreshold, 5}

\* the selection with the frequent sender looked at before the repeated
\* negative message
selectTemplate_frequentFirst(analysis, priorCount) ==
    IF analysis # Null /\ analysis.urgency = "CRITICAL" THEN "urgent_critical"
    ELSE IF priorCount >= FrequentThreshold THEN "frequent_sender"
    ELSE IF analysis # Null /\ analysis.sentiment \in {"NEGATIVE", "VERY_NEGATIVE"} /\ priorCount > 0
    THEN "negative_repeated"
    ELSE "default"

\* the template advancedReplyService picks for an analysis and the sender's
\* history; the keys are those of the templates copyDefaultTemplates writes
selectTemplate(analysis, priorCount) ==
    IF analysis # Null /\ analysis.urgency = "CRITICAL" THEN "urgent_critical"
    ELSE IF analysis # Null /\ analysis.sentiment \in {"NEGATIVE", "VERY_NEGATIVE"} /\ priorCount > 0
    THEN "negative_repeated"
    ELSE IF priorCount >= FrequentThreshold THEN "frequent_sender"
    ELSE "default"

\* the reply of advancedReplyService: the template it picked, for a sender
\* with priorCount earlier messages
AdvancedReply(template, priorCount) ==
    [kind |-> "reply", template |-> template, priorCount |-> priorCount]

\* the fallback of generateReply: DEFAULT_REPLY with subject and sender
EmailService_defaultReply(email) ==
    replace(replace(EmailService_DEFAULT_REPLY, "{subject}", email.subject), "{from}", email.from)

\* generateReply from the point where the await resumes
EmailService_generateReply(st, ex, advanced, priorCount, f) ==
    LET email == ex.body.email
    IN IF advanced = "throws"
       THEN Outcome(st, ReplyText("EmailService.DEFAULT_REPLY", EmailService_defaultReply(email)),
                    "returned", email.id, FALSE, TRUE)
       ELSE LET u == EmailService_updateEmailStatus(st, email.id, "REPLIED", f.update)
            IN Outcome(u.st, AdvancedReply(selectTemplate(email.toneAnalysis, priorCount), priorCount),
                       "returned", email.id, f.update, FALSE)

(***************************************************************************)
(* The exchanges and the routes of camel-routes.xml                        *)
(***************************************************************************)
\* an exchange slot that holds no exchange
IdleExchange ==
    [pc |-> "idle", headers |-> [from |-> "", to |-> "", subject |-> ""],
     body |-> [kind |-> "none"], call |-> "none",
     result |-> "none", msg |-> NoId, dbFailed |-> FALSE, caught |-> FALSE,
     decision |-> "none", wrote |-> Null]

store == [db |-> db, trail |-> trail]

\* raw bodies waiting at direct:process-email, each of which will take a row
PendingInserts == Cardinality({e \in Exchanges : exch[e].pc = "start" /\ exch[e].body.kind = "raw"})

\* which of the calls a handler makes fail this time: the persistence calls
\* (getDb() or stmt.run() raises) and, for the class, the injected classifier
Faults ==
    [insert : BOOLEAN, update : BOOLEAN, save : BOOLEAN, classify : {FALSE}, errorUpdate : {FALSE}]

EmailService_Faults ==
    [insert : BOOLEAN, update : BOOLEAN, save : BOOLEAN, classify : BOOLEAN, errorUpdate : BOOLEAN]

UpdateFaults ==
    [insert : {FALSE}, update : BOOLEAN, save : {FALSE}, classify : {FALSE}, errorUpdate : {FALSE}]

\* the exchange after a service call that left outcome o
AfterCall(ex, call, o, pc) ==
    [ex EXCEPT !.pc = pc, !.body = o.body, !.call = call, !.result = o.result,
               !.msg = o.msg, !.dbFailed = o.dbFailed, !.caught = o.caught,
               !.wrote = IF call = "processEmail" /\ o.result = "returned" /\ o.msg \in DOMAIN o.st.db
                         THEN o.st.db[o.msg] ELSE Null]

\* new Date() during a run of processEmail over this body: the next instant
\* of the message's row, the first instant for a message that has no row yet
Now(body) ==
    IF body.kind = "email" /\ body.email.id \in DOMAIN clock THEN clock[body.email.id] + 1 ELSE 1

RECURSIVE SumSeq(_)
SumSeq(q) == IF Len(q) = 0 THEN 0 ELSE Head(q) + SumSeq(Tail(q))

\* the runs of processEmail so far that reached a row
Runs == SumSeq(clock)

\* the clock after a run at instant now over message msg
Tick(rows, msg, now) ==
    IF msg \notin DOMAIN rows THEN clock
    ELSE IF msg \in DOMAIN clock THEN [clock EXCEPT ![msg] = now]
    ELSE Append(clock, now)

\* routes email-receiver and rest-api, and the Express handler: a message
\* with its headers and a raw body arrives at direct:process-email
Receive(e) ==
    /\ exch[e].pc = "idle"
    /\ Len(db) + PendingInserts < MaxRecords
    /\ \E h \in Headers, c \in RawContents :
          exch' = [exch EXCEPT ![e] = [IdleExchange EXCEPT !.pc = "start", !.headers = h,
                                                           !.body = [kind |-> "raw", content |-> c]]]
    /\ UNCHANGED <<service, db, trail, sent, clock>>

\* route email-processor, first step, with the module-level service
ProcessEmail(e) ==
    /\ service = "module"
    /\ exch[e].pc = "start"
    /\ Runs < MaxRuns
    /\ \E f \in Faults :
          LET o == processEmail(store, exch[e], Now(exch[e].body), f)
          IN /\ db' = o.st.db
             /\ trail' = o.st.trail
             /\ clock' = Tick(o.st.db, o.msg, Now(exch[e].body))
             /\ exch' = [exch EXCEPT ![e] = AfterCall(@, "processEmail", o,
                                     IF o.result = "returned" THEN "processed" ELSE "failed")]
    /\ UNCHANGED <<service, sent>>

\* route email-processor, first step, with the class
EmailService_ProcessEmail(e) ==
    /\ service = "class"
    /\ exch[e].pc = "start"
    /\ Runs < MaxRuns
    /\ \E f \in EmailService_Faults :
          LET o == EmailService_processEmail(store, exch[e], Now(exch[e].body), f)
          IN /\ db' = o.st.db
             /\ trail' = o.st.trail
             /\ clock' = Tick(o.st.db, o.msg, Now(exch[e].body))
             /\ exch' = [exch EXCEPT ![e] = AfterCall(@, "processEmail", o,
                                     IF o.result = "returned" THEN "processed" ELSE "failed")]
    /\ UNCHANGED <<service, sent>>

\* the decision the bean emailService gives the <choice>
Decision(body) ==
    IF service = "module" THEN shouldAutoReply(body) ELSE EmailService_shouldAutoReply(body)

\* the <choice> without its <otherwise>: the exchange goes on to
\* direct:send-auto-reply whatever the decision was
RouteChoice_alwaysReplies(e) ==
    /\ exch[e].pc = "processed"
    /\ exch' = [exch EXCEPT ![e] =
                  IF Decision(exch[e].body)
                  THEN [@ EXCEPT !.pc = "reply", !.decision = "true"]
                  ELSE [@ EXCEPT !.pc = "reply", !.decision = "false"]]
    /\ UNCHANGED <<service, db, trail, sent, clock>>

\* route email-processor, <choice>: <when> shouldAutoReply goes on to
\* direct:send-auto-reply, <otherwise> only logs and the route ends
RouteChoice(e) ==
    /\ exch[e].pc = "processed"
    /\ exch' = [exch EXCEPT ![e] =
                  IF Decision(exch[e].body)
                  THEN [@ EXCEPT !.pc = "reply", !.decision = "true"]
                  ELSE [@ EXCEPT !.pc = "done", !.decision = "false"]]
    /\ UNCHANGED <<service, db, trail, sent, clock>>

\* route email-auto-responder, generateReply of the module-level service
GenerateReply(e) ==
    /\ service = "module"
    /\ exch[e].pc = "reply"
    /\ \E f \in UpdateFaults :
          LET o == generateReply(store, exch[e], f)
          IN /\ db' = o.st.db
             /\ trail' = o.st.trail
             /\ exch' = [exch EXCEPT ![e] = AfterCall(@, "generateReply", o, "send")]
    /\ UNCHANGED <<service, sent, clock>>

\* route email-auto-responder, generateReply of the class up to its await
EmailService_GenerateReplyCall(e) ==
    /\ service = "class"
    /\ exch[e].pc = "reply"
    /\ exch' = [exch EXCEPT ![e].pc = "await", ![e].call = "generateReply"]
    /\ UNCHANGED <<service, db, trail, sent, clock>>

\* generateReply of the class from its await to its return
EmailService_GenerateReplyResume(e) ==
    /\ service = "class"
    /\ exch[e].pc = "await"
    /\ \E advanced \in AdvancedReplyOutcomes, priorCount \in PriorCounts, f \in UpdateFaults :
          LET o == EmailService_generateReply(store, exch[e], advanced, priorCount, f)
          IN /\ db' = o.st.db
             /\ trail' = o.st.trail
             /\ exch' = [exch EXCEPT ![e] = AfterCall(@, "generateReply", o, "send")]
    /\ UNCHANGED <<service, sent, clock>>

\* route email-auto-responder after generateReply: the headers are set and
\* the body goes to the smtp endpoint
SendReply(e) ==
    /\ exch[e].pc = "send"
    /\ sent' = sent \cup {[msg |-> exch[e].msg, text |-> exch[e].body]}
    /\ exch' = [exch EXCEPT ![e].pc = "done"]
    /\ UNCHANGED <<service, db, trail, clock>>

\* a caller hands the exchange to direct:process-email again: a retry after
\* a failure, or a second run over the EmailMessage the first run left as body
Redeliver(e) ==
    /\ exch[e].pc \in {"done", "failed"}
    /\ exch[e].body.kind \in {"raw", "email"}
    /\ exch[e].body.kind = "raw" => Len(db) + PendingInserts < MaxRecords
    /\ exch' = [exch EXCEPT ![e] = [IdleExchange EXCEPT !.pc = "start", !.headers = exch[e].headers,
                                                        !.body = exch[e].body]]
    /\ UNCHANGED <<service, db, trail, sent, clock>>

\* the exchange is over
Dispose(e) ==
    /\ exch[e].pc \in {"done", "failed"}
    /\ exch' = [exch EXCEPT ![e] = IdleExchange]
    /\ UNCHANGED <<service, db, trail, sent, clock>>

Init ==
    /\ service \in {"module", "class"}
    /\ db = <<>>
    /\ trail = <<>>
    /\ exch = [e \in Exchanges |-> IdleExchange]
    /\ sent = {}
    /\ clock = <<>>

Next ==
    \E e \in Exchanges :
        \/ Receive(e)
        \/ ProcessEmail(e)
        \/ EmailService_ProcessEmail(e)
        \/ RouteChoice(e)
        \/ GenerateReply(e)
        \/ EmailService_GenerateReplyCall(e)
        \/ EmailService_GenerateReplyResume(e)
        \/ SendReply(e)
        \/ Redeliver(e)
        \/ Dispose(e)

Spec == Init /\ [][Next]_vars

(***************************************************************************)
(* The reply decision on its own: the exchange reaches the <choice> with   *)
(* any message, and the policy is applied to it.                           *)
(***************************************************************************)
\* the fields of an analysis other than sentiment and urgency
PolicyDetails ==
    {[emotions |-> [e \in {"NEUTRAL"} |-> 8], formality |-> "NEUTRAL", topTopics |-> <<>>,
      summaryText |-> ""],
     [emotions |-> [e \in {"NEUTRAL", "ANGER"} |-> IF e = "ANGER" THEN 7 ELSE 8],
      formality |-> "NEUTRAL", topTopics |-> <<>>, summaryText |-> ""],
     [emotions |-> [e \in {"NEUTRAL"} |-> 8], formality |-> "VERY_FORMAL", topTopics |-> <<>>,
      summaryText |-> ""],
     [emotions |-> [e \in {"NEUTRAL"} |-> 8], formality |-> "NEUTRAL",
      topTopics |-> <<"invoice", "refund">>, summaryText |-> ""],
     [emotions |-> [e \in {"NEUTRAL"} |-> 8], formality |-> "NEUTRAL", topTopics |-> <<>>,
      summaryText |-> "Please call me back"],
     [emotions |-> [e \in {"HAPPINESS", "SURPRISE"} |-> 2], formality |-> "INFORMAL",
      topTopics |-> <<"urgent">>, summaryText |-> "hey, thanks"]}

PolicyAnalyses ==
    {ToneAnalysis(s, d.emotions, u, d.formality, d.topTopics, d.summaryText) :
        s \in Sentiment, u \in Urgency, d \in PolicyDetails}

\* id, sender and in-memory status of the messages the policy is asked about
PolicyEnvelopes ==
    {[id |-> 1, from |-> "client@example.com", status |-> "PROCESSED"],
     [id |-> 2, from |-> "other@example.com", status |-> "REPLIED"],
     [id |-> NoId, from |-> "client@example.com", status |-> "RECEIVED"]}

PolicyMessages ==
    {[EmailMessage(v.from, "support@example.com", "Help", [type |-> "string", text |-> "hello"], 1)
        EXCEPT !.id = v.id, !.status = v.status, !.toneAnalysis = t,
               !.processedDate = IF t = Null THEN NullDate ELSE 1] :
        v \in PolicyEnvelopes, t \in PolicyAnalyses \cup {Null}}

PolicyBodies ==
    {[kind |-> "email", email |-> m] : m \in PolicyMessages}
    \cup {[kind |-> "raw", content |-> c] : c \in RawContents}

PolicyInit ==
    /\ service \in {"module", "class"}
    /\ db = <<>>
    /\ trail = <<>>
    /\ sent = {}
    /\ clock = <<>>
    /\ \E b \in PolicyBodies :
          exch = [e \in Exchanges |->
                    IF e = 1
                    THEN [IdleExchange EXCEPT !.pc = "processed", !.body = b,
                                              !.headers = CHOOSE h \in Headers : TRUE]
                    ELSE IdleExchange]

PolicyNext == \E e \in Exchanges : RouteChoice(e)

PolicySpec == PolicyInit /\ [][PolicyNext]_vars

(***************************************************************************)
(* The classifier on its own: one message with a text body stands at       *)
(* direct:process-email, processEmail classifies it and the <choice> asks  *)
(* the policy.                                                             *)
(***************************************************************************)
ClassifierInit ==
    /\ service \in {"module", "class"}
    /\ db = <<>>
    /\ trail = <<>>
    /\ sent = {}
    /\ clock = <<>>
    /\ \E h \in Headers, c \in ClassifierContents :
          exch = [e \in Exchanges |->
                    IF e = 1
                    THEN [IdleExchange EXCEPT !.pc = "start", !.headers = h,
                                              !.body = [kind |-> "raw", content |-> c]]
                    ELSE IdleExchange]

ClassifierNext ==
    \E e \in Exchanges :
        \/ ProcessEmail(e)
        \/ EmailService_ProcessEmail(e)
        \/ RouteChoice(e)

ClassifierSpec == ClassifierInit /\ [][ClassifierNext]_vars

(***************************************************************************)
(* The ways into direct:process-email: the Express handler of              *)
(* POST /api/emails/process, which looks at from and to, and the routes    *)
(* email-receiver and rest-api, which hand every message on.               *)
(***************************************************************************)
\* envelopes as a sender may supply them: from and to present or empty
EntryHeaders ==
    {[from |-> f, to |-> t, subject |-> "Help"] :
        f \in {"", "client@example.com"}, t \in {"", "support@example.com"}}

\* app.post('/api/emails/process'): 400 when from or to is missing, else the
\* message is sent to direct:process-email
PostEmailsProcess(e) ==
    /\ exch[e].pc = "idle"
    /\ Len(db) + PendingInserts < MaxRecords
    /\ \E h \in EntryHeaders, c \in RawContents :
          exch' = [exch EXCEPT ![e] =
                      IF h.from = "" \/ h.to = ""
                      THEN [IdleExchange EXCEPT !.pc = "rejected", !.headers = h]
                      ELSE [IdleExchange EXCEPT !.pc = "start", !.headers = h,
                                                !.body = [kind |-> "raw", content |-> c]]]
    /\ UNCHANGED <<service, db, trail, sent, clock>>

\* routes email-receiver and rest-api: from the endpoint straight to
\* direct:process-email
RouteToProcessEmail(e) ==
    /\ exch[e].pc = "idle"
    /\ Len(db) + PendingInserts < MaxRecords
    /\ \E h \in EntryHeaders, c \in RawContents :
          exch' = [exch EXCEPT ![e] = [IdleExchange EXCEPT !.pc = "start", !.headers = h,
                                                           !.body = [kind |-> "raw", content |-> c]]]
    /\ UNCHANGED <<service, db, trail, sent, clock>>

EntryNext ==
    \E e \in Exchanges :
        \/ PostEmailsProcess(e)
        \/ RouteToProcessEmail(e)
        \/ ProcessEmail(e)
        \/ EmailService_ProcessEmail(e)
        \/ Dispose(e)

EntrySpec == Init /\ [][EntryNext]_vars

(***************************************************************************)
(* The reply stage: messages with different subjects and texts go through  *)
(* processEmail, the <choice>, generateReply and the smtp endpoint.        *)
(***************************************************************************)
ReplyHeaders ==
    {[from |-> "client@example.com", to |-> "support@example.com", subject |-> sb] :
        sb \in {"Help", "", "Re: {summary}", "50$& off", "US$$ and {from}"}}

ReplyInit ==
    /\ service \in {"module", "class"}
    /\ db = <<>>
    /\ trail = <<>>
    /\ sent = {}
    /\ clock = <<>>
    /\ \E h \in ReplyHeaders, c \in ReplyContents :
          exch = [e \in Exchanges |->
                    IF e = 1
                    THEN [IdleExchange EXCEPT !.pc = "start", !.headers = h,
                                              !.body = [kind |-> "raw", content |-> c]]
                    ELSE IdleExchange]

ReplyNext ==
    \E e \in Exchanges :
        \/ ProcessEmail(e)
        \/ EmailService_ProcessEmail(e)
        \/ RouteChoice(e)
        \/ GenerateReply(e)
        \/ EmailService_GenerateReplyCall(e)
        \/ EmailService_GenerateReplyResume(e)
        \/ SendReply(e)

ReplySpec == ReplyInit /\ [][ReplyNext]_vars

(***************************************************************************)
(* saveAnalysisResults on its own: a table with rows of several messages,  *)
(* and one processed message that is saved, and then saved again.          *)
(***************************************************************************)
\* rows as the pipeline leaves them: inserted, taken up, processed, failed
SaveRows ==
    {[from_address |-> "client@example.com", to_address |-> "support@example.com",
      subject |-> "Help", content |-> [type |-> "string", text |-> ""],
      received_date |-> 1, status |-> r.status, tone_analysis |-> r.tone_analysis,
      processed_date |-> r.processed_date] :
        r \in {[status |-> "RECEIVED", tone_analysis |-> Null, processed_date |-> NullDate],
               [status |-> "PROCESSING", tone_analysis |-> Null, processed_date |-> NullDate],
               [status |-> "PROCESSED", tone_analysis |-> toJson(createDefault), processed_date |-> 1],
               [status |-> "ERROR", tone_analysis |-> Null, processed_date |-> NullDate]}}

\* the processed messages handed to saveAnalysisResults: of a row of the
\* table or of a row that is gone, with an analysis or without
SaveMessages(rows) ==
    {[EmailMessage("client@example.com", "support@example.com", "Help",
                   [type |-> "string", text |-> ""], 1)
        EXCEPT !.id = id, !.toneAnalysis = t, !.processedDate = d, !.status = "PROCESSED"] :
        id \in 1..(rows + 1),
        t \in {Null, createDefault, ToneOfContent[[type |-> "string", text |-> "urgent problem"]]},
        d \in {1, 2}}

SaveInit ==
    /\ service \in {"module", "class"}
    /\ db \in [1..(MaxRecords + 1) -> SaveRows]
    /\ trail = [id \in 1..(MaxRecords + 1) |-> [moves |-> {}, analysed |-> FALSE]]
    /\ sent = {}
    /\ clock = <<>>
    /\ \E h \in Headers, m \in SaveMessages(MaxRecords + 1) :
          exch = [e \in Exchanges |->
                    IF e = 1
                    THEN [IdleExchange EXCEPT !.pc = "save", !.headers = h,
                                              !.body = [kind |-> "email", email |-> m]]
                    ELSE IdleExchange]

\* the exchange after a call of saveAnalysisResults; dbFailed tells whether
\* this call or the one before it did not reach the table
AfterSave(ex, s, fails) ==
    [ex EXCEPT !.pc = IF ex.pc = "save" THEN "saved" ELSE "resaved",
               !.call = "saveAnalysisResults",
               !.result = IF s.threw THEN "threw" ELSE "returned",
               !.msg = ex.body.email.id,
               !.dbFailed = ex.dbFailed \/ fails,
               !.caught = fails \/ isPlainObject(ex.body.email.toneAnalysis)]

\* saveAnalysisResults(email) of the module-level service, called with the
\* message of the exchange, a first and a second time
SaveAnalysisResults(e) ==
    /\ service = "module"
    /\ exch[e].pc \in {"save", "saved"}
    /\ Len(db) <= MaxRecords + 2
    /\ \E fails \in BOOLEAN :
          LET s == saveAnalysisResults(store, exch[e].body.email, fails)
          IN /\ db' = s.st.db
             /\ trail' = s.st.trail
             /\ exch' = [exch EXCEPT ![e] = AfterSave(@, s, fails)]
    /\ UNCHANGED <<service, sent, clock>>

\* saveAnalysisResults(email) of the class
EmailService_SaveAnalysisResults(e) ==
    /\ service = "class"
    /\ exch[e].pc \in {"save", "saved"}
    /\ Len(db) <= MaxRecords + 2
    /\ \E fails \in BOOLEAN :
          LET s == EmailService_saveAnalysisResults(store, exch[e].body.email, fails)
          IN /\ db' = s.st.db
             /\ trail' = s.st.trail
             /\ exch' = [exch EXCEPT ![e] = AfterSave(@, s, fails)]
    /\ UNCHANGED <<service, sent, clock>>

SaveNext ==
    \E e \in Exchanges :
        \/ SaveAnalysisResults(e)
        \/ EmailService_SaveAnalysisResults(e)

SaveSpec == SaveInit /\ [][SaveNext]_vars

(***************************************************************************)
(* Two messages at once: each exchange holds a message of its own at       *)
(* direct:process-email, and the steps of their pipelines interleave, the  *)
(* await of the class's generateReply included.                            *)
(***************************************************************************)
\* the exchanges of two messages, A and B
PairExchanges == {"A", "B"}

\* the messages carry a content that is replied to or one on which the
\* classifier raises
PairInit ==
    /\ service \in {"module", "class"}
    /\ db = <<>>
    /\ trail = <<>>
    /\ sent = {}
    /\ clock = <<>>
    /\ \E h \in Headers,
          c \in [PairExchanges -> {[type |-> "string", text |-> "This is urgent, please help ASAP"],
                                  [type |-> "number", text |-> "5"]}] :
          exch = [e \in PairExchanges |->
                    [IdleExchange EXCEPT !.pc = "start", !.headers = h,
                                         !.body = [kind |-> "raw", content |-> c[e]]]]

PairNext ==
    \E e \in PairExchanges :
        \/ ProcessEmail(e)
        \/ EmailService_ProcessEmail(e)
        \/ RouteChoice(e)
        \/ GenerateReply(e)
        \/ EmailService_GenerateReplyCall(e)
        \/ EmailService_GenerateReplyResume(e)
        \/ SendReply(e)

PairSpec == PairInit /\ [][PairNext]_vars

(***************************************************************************)
(* ToneAnalysis as a JavaScript object.  A value is [type, ...]: undefined,*)
(* null, a boolean, a number, a string, an array or an object with its     *)
(* members.  A JSON text is [valid, value]: a text JSON.parse rejects, or   *)
(* the text of a value.                                                    *)
(***************************************************************************)
Undefined == [type |-> "undefined"]

Str(s) == [type |-> "string", text |-> s]

Obj(members) == [type |-> "object", members |-> members]

\* the values that count as false in a || b
falsy(v) ==
    \/ v.type \in {"undefined", "null"}
    \/ v.type = "string" /\ v.text = ""
    \/ v.type = "number" /\ v.text \in {"0", "NaN"}
    \/ v.type = "boolean" /\ v.text = "false"

\* data.key for a value that is neither null nor undefined
member(data, key) ==
    IF data.type = "object" /\ key \in DOMAIN data.members THEN data.members[key] ELSE Undefined

\* JSON.stringify leaves out a member whose value is a function or undefined
stringifyMembers(members) ==
    [name \in {n \in DOMAIN members : members[n].type \notin {"function", "undefined"}} |->
        members[name]]

ToneFields == {"sentiment", "emotions", "urgency", "formality", "topTopics", "summaryText"}

\* the default values of the constructor's parameters
ParameterDefault(field) ==
    CASE field = "sentiment" -> Str("NEUTRAL")
      [] field = "emotions" -> Obj(<<>>)
      [] field = "urgency" -> Str("NORMAL")
      [] field = "formality" -> Str("NEUTRAL")
      [] field = "topTopics" -> [type |-> "array", items |-> <<>>]
      [] OTHER -> Str("")

\* constructor({sentiment = ..., ...}) keeping every parameter that is given,
\* whatever it is
ToneAnalysis_constructor(params) ==
    [field \in ToneFields |->
        IF member(params, field) = Undefined THEN ParameterDefault(field)
        ELSE member(params, field)]

\* the value fromJson puts in place of a member that counts as false
FromJsonDefault(field) ==
    IF field = "emotions" THEN Obj([e \in {"NEUTRAL"} |-> [type |-> "number", text |-> "1"]])
    ELSE ParameterDefault(field)

ToneAnalysis_createDefault ==
    ToneAnalysis_constructor(
        Obj([field \in ToneFields |->
                IF field = "summaryText" THEN Str("Nie mozna przeanalizowac tresci wiadomosci.")
                ELSE FromJsonDefault(field)]))

\* ToneAnalysis.fromJson(json): JSON.parse raises on a text that is no JSON,
\* and the members of null cannot be read; both give the default analysis.
\* Otherwise every member that counts as false is replaced (data.x || ...).
ToneAnalysis_fromJson(json) ==
    IF ~json.valid THEN ToneAnalysis_createDefault
    ELSE IF json.value.type = "null" THEN ToneAnalysis_createDefault
    ELSE ToneAnalysis_constructor(
             Obj([field \in ToneFields |->
                     IF falsy(member(json.value, field)) THEN FromJsonDefault(field)
                     ELSE member(json.value, field)]))

\* toneAnalysis.toJson(): JSON.stringify of an object with the six fields
ToneAnalysis_toJson(t) == [valid |-> TRUE, value |-> Obj(stringifyMembers(t))]

\* objects with some of the members sentiment, urgency and formality
GivenObjects ==
    {Obj([field \in present |-> v[field]]) :
        present \in SUBSET {"sentiment", "urgency", "formality"},
        v \in [{"sentiment", "urgency", "formality"} ->
                 {[type |-> "null"], Str("NEGATIVE"), Str("HIGH"), Str("HAPPY")}]}

\* the parameter objects handed to the constructor: the objects above, objects
\* whose categories are not given, empty or of another enumeration, and
\* objects with enumerated categories whose emotions, topTopics and
\* summaryText are left out, null, empty or filled
ConstructorParams ==
    GivenObjects
    \cup {Obj([field \in {"sentiment", "urgency", "formality"} |-> v[field]]) :
            v \in [{"sentiment", "urgency", "formality"} -> {Undefined, Str(""), Str("FORMAL")}]}
    \cup {Obj([field \in ToneFields |->
                 CASE field = "sentiment" -> Str("NEGATIVE")
                   [] field = "urgency" -> Str("HIGH")
                   [] field = "formality" -> Str("FORMAL")
                   [] field = "emotions" -> emotions
                   [] field = "topTopics" -> topTopics
                   [] OTHER -> summaryText]) :
            emotions \in {Undefined, [type |-> "null"], Obj(<<>>),
                          Obj([e \in {"ANGER"} |-> [type |-> "number", text |-> "0.8"]])},
            topTopics \in {Undefined, [type |-> "array", items |-> <<>>],
                           [type |-> "array", items |-> <<Str("invoice")>>]},
            summaryText \in {Undefined, [type |-> "null"], Str(""), Str("Invoice overdue")}}

\* a caller is about to make a ToneAnalysis: with the constructor, with
\* fromJson, from a text that is no JSON, the text of a value that is no
\* object or the text of an object, or with createDefault
ToneInit ==
    /\ service \in {"module", "class"}
    /\ db = <<>>
    /\ trail = <<>>
    /\ sent = {}
    /\ clock = <<>>
    /\ \E input \in {[kind |-> "params", params |-> p] : p \in ConstructorParams}
                    \cup {[kind |-> "json", json |-> [valid |-> FALSE]]}
                    \cup {[kind |-> "json", json |-> [valid |-> TRUE, value |-> v]] :
                            v \in {[type |-> "null"], Str("NEGATIVE"),
                                   [type |-> "number", text |-> "5"],
                                   [type |-> "array", items |-> <<>>]} \cup GivenObjects}
                    \cup {[kind |-> "none"]} :
          exch = [e \in Exchanges |->
                    IF e = 1 THEN [IdleExchange EXCEPT !.pc = "make", !.body = input]
                    ELSE IdleExchange]

\* the exchange holds the ToneAnalysis that call has made
Made(e, call, tone) ==
    /\ exch' = [exch EXCEPT ![e].pc = "made", ![e].call = call, ![e].result = "returned",
                            ![e].body = [kind |-> "tone", tone |-> tone]]
    /\ UNCHANGED <<service, db, trail, sent, clock>>

\* new ToneAnalysis(params)
NewToneAnalysis(e) ==
    /\ exch[e].pc = "make"
    /\ exch[e].body.kind = "params"
    /\ Made(e, "constructor", ToneAnalysis_constructor(exch[e].body.params))

\* ToneAnalysis.fromJson(json)
FromJson(e) ==
    /\ exch[e].pc = "make"
    /\ exch[e].body.kind = "json"
    /\ Made(e, "fromJson", ToneAnalysis_fromJson(exch[e].body.json))

\* ToneAnalysis.createDefault()
CreateDefault(e) ==
    /\ exch[e].pc = "make"
    /\ exch[e].body.kind = "none"
    /\ Made(e, "createDefault", ToneAnalysis_createDefault)

\* ToneAnalysis.fromJson(toneAnalysis.toJson()) for the ToneAnalysis just made
FromJsonOfToJson(e) ==
    /\ exch[e].pc = "made"
    /\ exch' = [exch EXCEPT
                  ![e].pc = "parsed", ![e].call = "fromJson(toJson)",
                  ![e].body = [kind |-> "roundtrip", tone |-> exch[e].body.tone,
                               back |-> ToneAnalysis_fromJson(ToneAnalysis_toJson(exch[e].body.tone))]]
    /\ UNCHANGED <<service, db, trail, sent, clock>>

ToneNext ==
    \E e \in Exchanges :
        \/ NewToneAnalysis(e)
        \/ FromJson(e)
        \/ CreateDefault(e)
        \/ FromJsonOfToJson(e)

ToneSpec == ToneInit /\ [][ToneNext]_vars

(***************************************************************************)
(* GET /api/templates/:key of index.js.  advancedReplyService is undefined *)
(* until startCamelContext has made it; its templates are an object whose  *)
(* own members are the loaded templates.                                   *)
(***************************************************************************)
\* the keys of the templates copyDefaultTemplates writes
TemplateKeys == {"default", "frequent_sender", "negative_repeated", "urgent_critical"}

\* what the templates object may inherit from: the members of
\* Object.prototype for an object written as a literal, nothing for one made
\* with Object.create(null)
Prototypes ==
    {[name \in {"constructor", "toString", "hasOwnProperty"} |-> [type |-> "function", text |-> name]],
     <<>>}

\* object[key]: the object's own member, else the inherited one, else undefined
lookup(object, prototype, key) ==
    IF key \in DOMAIN object.members THEN object.members[key]
    ELSE IF key \in DOMAIN prototype THEN prototype[key]
    ELSE Undefined

\* advancedReplyService when a request arrives: not made yet, made without
\* templates, or made with the templates it has loaded
TemplateServices ==
    {Undefined, Obj(<<>>)} \cup
    {Obj([name \in {"templates"} |->
            Obj([key \in loaded |-> Str("Szanowny/a {{SENDER_NAME}} (" \o key \o ")")])]) :
        loaded \in SUBSET TemplateKeys}

\* the handler of GET /api/templates/:key: the response it sends, kept with
\* the request
getTemplateByKey(request) ==
    IF falsy(request.advancedReplyService) \/ falsy(member(request.advancedReplyService, "templates"))
    THEN [kind |-> "response", request |-> request, status |-> 503,
          json |-> Str("Serwis szablonow niedostepny")]
    ELSE IF falsy(lookup(member(request.advancedReplyService, "templates"), request.prototype,
                         request.key))
    THEN [kind |-> "response", request |-> request, status |-> 404,
          json |-> Str("Szablon nie znaleziony")]
    ELSE [kind |-> "response", request |-> request, status |-> 200,
          json |-> Obj(stringifyMembers(
                        [name \in {"key", "content"} |->
                            IF name = "key" THEN Str(request.key)
                            ELSE lookup(member(request.advancedReplyService, "templates"),
                                        request.prototype, request.key)]))]

\* a request arrives, for the key of a template file or for another key
TemplateInit ==
    /\ service \in {"module", "class"}
    /\ db = <<>>
    /\ trail = <<>>
    /\ sent = {}
    /\ clock = <<>>
    /\ \E key \in TemplateKeys \cup {"unknown", "constructor", "toString"},
          s \in TemplateServices, prototype \in Prototypes :
          exch = [e \in Exchanges |->
                    IF e = 1
                    THEN [IdleExchange EXCEPT
                            !.pc = "request",
                            !.body = [kind |-> "request", key |-> key, advancedReplyService |-> s,
                                      prototype |-> prototype]]
                    ELSE IdleExchange]

\* app.get('/api/templates/:key', ...)
GetTemplate(e) ==
    /\ exch[e].pc = "request"
    /\ exch' = [exch EXCEPT ![e].pc = "answered", ![e].call = "GET /api/templates/:key",
                            ![e].result = "returned",
                            ![e].body = getTemplateByKey(exch[e].body)]
    /\ UNCHANGED <<service, db, trail, sent, clock>>

TemplateNext == \E e \in Exchanges : GetTemplate(e)

TemplateSpec == TemplateInit /\ [][TemplateNext]_vars

(***************************************************************************)
(* A message read back from the table: a row that saveEmailToDatabase and  *)
(* saveAnalysisResults wrote is read with EmailMessage.fromDb, and the     *)
(* message is saved or processed again.                                    *)
(***************************************************************************)
\* the table after the message was inserted and, if saved, after the analysis
\* of its content was saved
StoredTable(email, saved) ==
    IF saved
    THEN runSaveAnalysis(runInsert([db |-> <<>>, trail |-> <<>>], email),
                         copy(email, ToneOfContent[email.content], 1, "PROCESSED"))
    ELSE runInsert([db |-> <<>>, trail |-> <<>>], email)

ReadBackInit ==
    /\ service \in {"module", "class"}
    /\ sent = {}
    /\ \E content \in ReplyContents, saved \in BOOLEAN :
          /\ db = StoredTable([EmailMessage("client@example.com", "support@example.com", "Help",
                                            content, 1) EXCEPT !.id = 1], saved).db
          /\ trail = StoredTable([EmailMessage("client@example.com", "support@example.com", "Help",
                                               content, 1) EXCEPT !.id = 1], saved).trail
          /\ clock = IF saved THEN <<1>> ELSE <<>>
    /\ \E h \in Headers :
          exch = [e \in Exchanges |->
                    IF e = 1
                    THEN [IdleExchange EXCEPT !.pc = "stored", !.headers = h, !.msg = 1,
                                              !.body = [kind |-> "row", id |-> 1]]
                    ELSE IdleExchange]

\* EmailMessage.fromDb(row): the message goes to saveAnalysisResults or to
\* processEmail next
FromDb(e) ==
    /\ exch[e].pc = "stored"
    /\ \E next \in {"save", "start"} :
          exch' = [exch EXCEPT
                     ![e].pc = next, ![e].call = "fromDb", ![e].result = "returned",
                     ![e].body = [kind |-> "email",
                                  email |-> fromDb(exch[e].body.id, db[exch[e].body.id],
                                                   Now(exch[e].body))]]
    /\ UNCHANGED <<service, db, trail, sent, clock>>

ReadBackNext ==
    \E e \in Exchanges :
        \/ FromDb(e)
        \/ SaveAnalysisResults(e)
        \/ EmailService_SaveAnalysisResults(e)
        \/ ProcessEmail(e)
        \/ EmailService_ProcessEmail(e)

ReadBackSpec == ReadBackInit /\ [][ReadBackNext]_vars

(***************************************************************************)
(* Properties                                                              *)
(***************************************************************************)
Rows == DOMAIN db

\* the forward order RECEIVED < PROCESSING < PROCESSED < REPLIED
StatusRank(status) ==
    CASE status = "RECEIVED" -> 1
      [] status = "PROCESSING" -> 2
      [] status = "PROCESSED" -> 3
      [] status = "REPLIED" -> 4
      [] OTHER -> 0

Ordered(status) == StatusRank(status) > 0

\* C1: lifecycle monotonicity.  No write of processEmail, shouldAutoReply or
\* generateReply, in either service, moves the persisted status of a message
\* backward in the order RECEIVED < PROCESSING < PROCESSED < REPLIED, also
\* when processEmail runs over an EmailMessage that was processed before.
LifecycleMonotone ==
    \A id \in Rows : \A m \in trail[id].moves :
        (Ordered(m[1]) /\ Ordered(m[2])) => StatusRank(m[1]) <= StatusRank(m[2])

\* C2: REPLIED and ERROR are terminal.  Once the persisted status of a
\* message is REPLIED or ERROR, no later call changes it.
TerminalStatusesStay ==
    \A id \in Rows : \A m \in trail[id].moves : m[1] \notin {"REPLIED", "ERROR"}

\* C3: REPLIED is never reached without a preceding PROCESSED with a non-null
\* ToneAnalysis.  A row whose status has become REPLIED was persisted earlier
\* with status PROCESSED and a tone_analysis, also when persistence calls fail.
RepliedOnlyAfterProcessed ==
    \A id \in Rows : db[id].status = "REPLIED" => trail[id].analysed

\* C4: a message never skips PROCESSING.  The stored status never goes from
\* RECEIVED directly to PROCESSED, and the reply decision is evaluated only
\* on a message whose classification was attempted (processEmail returned
\* with the analysis in the body).
NeverSkipsProcessing ==
    /\ \A id \in Rows : <<"RECEIVED", "PROCESSED">> \notin trail[id].moves
    /\ \A e \in Exchanges :
          exch[e].decision # "none" =>
             /\ exch[e].call = "processEmail"
             /\ exch[e].result = "returned"
             /\ exch[e].body.kind = "email"
             /\ exch[e].body.email.toneAnalysis # Null

\* C5: failure during processing drives the message to ERROR and is
\* propagated.  When processEmail fails after the record was created, the
\* row's status is ERROR and the error is rethrown, whether the body was raw
\* content or already an EmailMessage.
ProcessingFailureDrivesToError ==
    \A e \in Exchanges :
        (exch[e].call = "processEmail" /\ exch[e].caught /\ exch[e].msg \in Rows) =>
            /\ exch[e].result = "threw"
            /\ db[exch[e].msg].status = "ERROR"

\* C6: persistence failures are never silently swallowed.  When createMessage,
\* updateStatus or saveAnalysis fails during processEmail or generateReply,
\* the call does not return normally: the failure reaches the caller.
PersistenceFailuresReported ==
    \A e \in Exchanges : exch[e].dbFailed => exch[e].result = "threw"

\* C7: a failed reply stage sends nothing and leaves the message in
\* PROCESSED.  When generateReply fails, no reply body for that message goes
\* to the outbound transport and its persisted status stays PROCESSED.
FailedReplySendsNothing ==
    \A e \in Exchanges :
        (exch[e].call = "generateReply" /\ exch[e].caught) =>
            /\ \A r \in sent : r.msg # exch[e].msg
            /\ exch[e].msg \in Rows => db[exch[e].msg].status = "PROCESSED"

\* the analysis the policy was asked about, Null when there is none
AnalysisOf(body) == IF body.kind = "email" THEN body.email.toneAnalysis ELSE Null

\* C8: shouldAutoReply returns true if and only if the analysis has urgency
\* in {HIGH, CRITICAL} or sentiment in {NEGATIVE, VERY_NEGATIVE}; for every
\* other pair, and when the analysis is absent, it returns false and the
\* route goes on without an error.
AutoReplyIffUrgentOrNegative ==
    \A e \in Exchanges :
        /\ exch[e].decision # "none" =>
              LET analysis == AnalysisOf(exch[e].body)
              IN (exch[e].decision = "true") <=>
                    /\ analysis # Null
                    /\ \/ analysis.urgency \in {"HIGH", "CRITICAL"}
                       \/ analysis.sentiment \in {"NEGATIVE", "VERY_NEGATIVE"}
        /\ exch[e].decision = "true" => exch[e].pc = "reply"
        /\ exch[e].decision = "false" => exch[e].pc = "done"

\* C8 witness: a reply was decided for urgency alone, and declined for a
\* message without analysis
AutoReplyDecidedWitness ==
    \E e \in Exchanges :
        /\ exch[e].decision = "true"
        /\ AnalysisOf(exch[e].body) # Null
        /\ AnalysisOf(exch[e].body).urgency = "CRITICAL"
        /\ AnalysisOf(exch[e].body).sentiment = "VERY_POSITIVE"

\* C9: shouldAutoReply is a function of (sentiment, urgency) only.  The
\* decision taken for a message is the decision for every other message
\* whose analysis has the same sentiment and urgency, whatever their
\* emotions, topTopics, summaryText, formality, id, sender and status are.
AutoReplyDependsOnSentimentUrgencyOnly ==
    \A e \in Exchanges :
        (exch[e].decision # "none" /\ AnalysisOf(exch[e].body) # Null) =>
            \A other \in PolicyMessages :
                (/\ other.toneAnalysis # Null
                 /\ other.toneAnalysis.sentiment = AnalysisOf(exch[e].body).sentiment
                 /\ other.toneAnalysis.urgency = AnalysisOf(exch[e].body).urgency)
                => (Decision([kind |-> "email", email |-> other]) <=> exch[e].decision = "true")

\* C9 witness: a decision was taken for a message that differs from the
\* plain one in every field but sentiment and urgency
AutoReplyVariedWitness ==
    \E e \in Exchanges :
        /\ exch[e].decision = "false"
        /\ AnalysisOf(exch[e].body) # Null
        /\ AnalysisOf(exch[e].body).formality = "INFORMAL"
        /\ AnalysisOf(exch[e].body).topTopics = <<"urgent">>
        /\ exch[e].body.email.status = "REPLIED"
        /\ exch[e].body.email.from = "other@example.com"

\* C10: when the policy declines a reply there is no transition.  After
\* processEmail returned and shouldAutoReply gave false, the route has ended
\* normally, generateReply was not invoked, nothing was sent for the message
\* and its row is as processEmail left it: status PROCESSED with the
\* analysis and processedDate of the processed message when processEmail's
\* writes succeeded.
DeclineLeavesMessageAsProcessed ==
    \A e \in Exchanges :
        (exch[e].decision = "false" /\ exch[e].msg \in Rows) =>
            /\ exch[e].pc = "done"
            /\ exch[e].call = "processEmail"
            /\ exch[e].result = "returned"
            /\ \A r \in sent : r.msg # exch[e].msg
            /\ db[exch[e].msg] = exch[e].wrote
            /\ ~exch[e].dbFailed =>
                  /\ db[exch[e].msg].status = "PROCESSED"
                  /\ db[exch[e].msg].tone_analysis = toJson(exch[e].body.email.toneAnalysis)
                  /\ db[exch[e].msg].processed_date = exch[e].body.email.processedDate

\* C10 witness: a processed message whose reply was declined
DeclinedWitness ==
    \E e \in Exchanges :
        /\ exch[e].decision = "false"
        /\ exch[e].pc = "done"
        /\ exch[e].msg \in Rows
        /\ ~exch[e].dbFailed
        /\ db[exch[e].msg].status = "PROCESSED"
        /\ db[exch[e].msg].processed_date # NullDate

(***************************************************************************)
(* The classifier                                                          *)
(***************************************************************************)
\* the exchanges on which processEmail has returned a message with a text body
Classified ==
    {e \in Exchanges : /\ exch[e].call = "processEmail"
                       /\ exch[e].result = "returned"
                       /\ exch[e].body.kind = "email"
                       /\ exch[e].body.email.content.type = "string"}

TextOf(e) == exch[e].body.email.content.text

ToneOf(e) == exch[e].body.email.toneAnalysis

\* a text that is empty or consists of white space only
Blank(text) == \A i \in 1..Len(text) : CharAt(text, i) \in {" ", "\t", "\n", "\r"}

\* the text contains one of the keywords, whatever the case of its letters
Mentions(text, kws) ==
    \E kw \in kws : \E i \in 1..Len(text) :
        /\ i + Len(kw) - 1 <= Len(text)
        /\ toLowerCase(SubSeq(text, i, i + Len(kw) - 1)) = kw

\* C11: for an empty or whitespace-only content the analysis is exactly the
\* fixed default: sentiment NEUTRAL, urgency NORMAL, formality NEUTRAL,
\* emotions {NEUTRAL: 1.0}, no topics and the fixed summary.
EmptyContentGetsDefaultAnalysis ==
    \A e \in Classified :
        Blank(TextOf(e)) =>
            ToneOf(e) = [sentiment |-> "NEUTRAL", emotions |-> [x \in {"NEUTRAL"} |-> 10],
                         urgency |-> "NORMAL", formality |-> "NEUTRAL", topTopics |-> <<>>,
                         summaryText |-> "Nie mozna przeanalizowac tresci wiadomosci."]

\* C11 witness: a whitespace-only content was classified
WhitespaceClassifiedWitness ==
    \E e \in Classified :
        /\ TextOf(e) = "  \t\n"
        /\ ToneOf(e).summaryText = "Nie mozna przeanalizowac tresci wiadomosci."

\* C12: analyzeTone never raises, whatever content processEmail hands to it:
\* with the module-level service, whose classifier is llmService.analyzeTone,
\* a processEmail that fails has failed in a persistence call.
AnalyzeToneNeverRaises ==
    \A e \in Exchanges :
        (service = "module" /\ exch[e].call = "processEmail" /\ exch[e].result = "threw")
            => exch[e].dbFailed

\* C13: for a non-empty text the sentiment, urgency and formality of the
\* analysis are members of their enumerations and there are at most 4 topics.
AnalysisWithinEnumerations ==
    \A e \in Classified :
        ~Blank(TextOf(e)) =>
            /\ ToneOf(e).sentiment \in Sentiment
            /\ ToneOf(e).urgency \in Urgency
            /\ ToneOf(e).formality \in Formality
            /\ Len(ToneOf(e).topTopics) <= 4

\* C13 witness: a text with six different topic words was cut to four topics
FourTopicsWitness ==
    \E e \in Classified :
        /\ TextOf(e) = "alpha beta gamma delta epsilon zeta beta"
        /\ Len(ToneOf(e).topTopics) = 4
        /\ ToneOf(e).topTopics[1] = "beta"

\* C14: the sentiment is that of the first keyword set, in the order negative,
\* very negative, positive, very positive, of which the text contains a
\* keyword, and NEUTRAL when it contains none.
SentimentByFirstMatchingKeywordSet ==
    \A e \in Classified :
        ~Blank(TextOf(e)) =>
            LET negative == Mentions(TextOf(e), {"problem", "error", "issue"})
                veryNegative == Mentions(TextOf(e), {"angry", "frustrated", "terrible"})
                positive == Mentions(TextOf(e), {"thanks", "good", "happy"})
                veryPositive == Mentions(TextOf(e), {"excellent", "amazing", "great"})
            IN /\ negative => ToneOf(e).sentiment = "NEGATIVE"
               /\ (~negative /\ veryNegative) => ToneOf(e).sentiment = "VERY_NEGATIVE"
               /\ (~negative /\ ~veryNegative /\ positive) => ToneOf(e).sentiment = "POSITIVE"
               /\ (~negative /\ ~veryNegative /\ ~positive /\ veryPositive)
                     => ToneOf(e).sentiment = "VERY_POSITIVE"
               /\ (~negative /\ ~veryNegative /\ ~positive /\ ~veryPositive)
                     => ToneOf(e).sentiment = "NEUTRAL"

\* C14 witness: a text with a negative and a very negative keyword is NEGATIVE
NegativeBeforeVeryNegativeWitness ==
    \E e \in Classified :
        /\ Mentions(TextOf(e), {"problem"})
        /\ Mentions(TextOf(e), {"angry"})
        /\ Mentions(TextOf(e), {"great"})
        /\ ToneOf(e).sentiment = "NEGATIVE"

\* C15: the classifier and the policy composed.  The reply is decided for a
\* text if and only if the text contains an urgency keyword (urgent, asap,
\* immediately, critical, emergency) or a negative keyword (problem, error,
\* issue, angry, frustrated, terrible); a text with urgent or asap has urgency
\* HIGH; "Thanks, great service!" is POSITIVE and not replied to.
AutoReplyIffKeywordPresent ==
    \A e \in Classified :
        exch[e].decision # "none" =>
            /\ exch[e].decision = "true" <=>
                  Mentions(TextOf(e), {"urgent", "asap", "immediately", "critical", "emergency",
                                       "problem", "error", "issue", "angry", "frustrated",
                                       "terrible"})
            /\ Mentions(TextOf(e), {"urgent", "asap"}) => ToneOf(e).urgency = "HIGH"
            /\ TextOf(e) = "Thanks, great service!" =>
                  (ToneOf(e).sentiment = "POSITIVE" /\ exch[e].decision = "false")
            /\ TextOf(e) = "" => exch[e].decision = "false"

\* C15 witness: the reply to "Reply ASAP" was decided with urgency HIGH
AsapRepliedWitness ==
    \E e \in Classified :
        /\ TextOf(e) = "Reply ASAP"
        /\ exch[e].decision = "true"
        /\ ToneOf(e).urgency = "HIGH"
        /\ ToneOf(e).sentiment = "NEUTRAL"

\* the place of the first occurrence of word w among the words
FirstIndex(words, w) == CHOOSE i \in 1..Len(words) : words[i] = w /\ \A j \in 1..(i - 1) : words[j] # w

\* C16: the topics are the most frequent tokens (lower-cased pieces between
\* non-word characters, longer than 3 and not in the stop list), at most 4,
\* in descending order of count, and of two topics with the same count the
\* one that occurs first in the text comes first, all-digit tokens included.
TopicTiesByFirstOccurrence ==
    \A e \in Classified :
        ~Blank(TextOf(e)) =>
            LET words == topicWords(toLowerCase(TextOf(e)))
                topics == ToneOf(e).topTopics
            IN /\ Len(topics) <= 4
               /\ \A i \in 1..Len(topics) : \E k \in 1..Len(words) : words[k] = topics[i]
               /\ \A i \in 1..Len(topics) : \A j \in (i + 1)..Len(topics) :
                     /\ wordCount(words, topics[i]) >= wordCount(words, topics[j])
                     /\ wordCount(words, topics[i]) = wordCount(words, topics[j])
                           => FirstIndex(words, topics[i]) < FirstIndex(words, topics[j])

\* C17: a message whose from or to is missing or empty is rejected before
\* the core on every way in: no row is created for it and processEmail is
\* not run on it.
InvalidEnvelopeNeverStored ==
    /\ \A r \in Rows : db[r].from_address # "" /\ db[r].to_address # ""
    /\ \A e \in Exchanges :
          exch[e].call = "processEmail" => (exch[e].headers.from # "" /\ exch[e].headers.to # "")

(***************************************************************************)
(* The reply stage                                                         *)
(***************************************************************************)
\* generateReply has just returned on exchange e without running its catch
\* block: before the step the body was the message, after it the reply
Replied(e) ==
    /\ exch[e].pc \in {"reply", "await"}
    /\ exch'[e].pc = "send"
    /\ ~exch'[e].caught

\* C18: precedence of CRITICAL.  For a message whose analysis has urgency
\* CRITICAL the reply is made from the urgent template whatever the
\* sentiment: URGENT_REPLY, with its text, in the module-level generateReply,
\* and urgent_critical whatever the sender's history in the class.
CriticalTakesUrgentTemplate ==
    [][\A e \in Exchanges :
          (Replied(e) /\ exch[e].body.email.toneAnalysis.urgency = "CRITICAL") =>
              IF service = "module"
              THEN /\ exch'[e].body.template = "URGENT_REPLY"
                   /\ includes(exch'[e].body.text, "Zauwazylismy, ze sprawa jest krytycznie wazna.")
              ELSE exch'[e].body.template = "urgent_critical"]_vars

\* C18 witness: the urgent text goes out for a critical message that is also
\* very negative
CriticalNegativeWitness ==
    \E e \in Exchanges :
        /\ service = "module"
        /\ exch[e].pc = "send"
        /\ ~exch[e].caught
        /\ exch[e].body.template = "URGENT_REPLY"
        /\ db[exch[e].msg].content.text = "critical and terrible"
        /\ db[exch[e].msg].tone_analysis.json[1] = "VERY_NEGATIVE"
        /\ db[exch[e].msg].tone_analysis.json[3] = "CRITICAL"

\* C19: the template of the class's reply follows the four rules, the first
\* that applies winning: CRITICAL -> urgent_critical; else a negative or very
\* negative message of a sender with earlier messages -> negative_repeated;
\* else a sender with at least the frequent threshold of earlier messages ->
\* frequent_sender; else default.  A NEUTRAL message of a sender with 5
\* earlier messages gets frequent_sender.
TemplateByPrecedence ==
    [][\A e \in Exchanges :
          (service = "class" /\ Replied(e)) =>
              LET analysis == exch[e].body.email.toneAnalysis
                  priorCount == exch'[e].body.priorCount
                  template == exch'[e].body.template
                  critical == analysis.urgency = "CRITICAL"
                  repeated == analysis.sentiment \in {"NEGATIVE", "VERY_NEGATIVE"} /\ priorCount > 0
                  frequent == priorCount >= FrequentThreshold
              IN /\ critical => template = "urgent_critical"
                 /\ (~critical /\ repeated) => template = "negative_repeated"
                 /\ (~critical /\ ~repeated /\ frequent) => template = "frequent_sender"
                 /\ (~critical /\ ~repeated /\ ~frequent) => template = "default"
                 /\ (~critical /\ analysis.sentiment = "NEUTRAL" /\ priorCount = 5)
                       => template = "frequent_sender"]_vars

\* C19 witness: a negative message of a frequent sender got negative_repeated
NegativeRepeatedWitness ==
    \E e \in Exchanges :
        /\ service = "class"
        /\ exch[e].pc = "send"
        /\ ~exch[e].caught
        /\ exch[e].body.template = "negative_repeated"
        /\ exch[e].body.priorCount = 5
        /\ exch[e].msg \in Rows
        /\ db[exch[e].msg].content.text = "urgent problem"

RECURSIVE SubstituteFrom(_, _, _)
\* s from position i on, every placeholder that has a value replaced by the
\* value as it stands, in one pass from left to right
SubstituteFrom(s, i, values) ==
    LET At(k, ph) == k + Len(ph) - 1 <= Len(s) /\ SubSeq(s, k, k + Len(ph) - 1) = ph
        found == {k \in i..Len(s) : \E ph \in DOMAIN values : At(k, ph)}
    IN IF found = {} THEN SubSeq(s, i, Len(s))
       ELSE LET k == CHOOSE x \in found : \A o \in found : x <= o
                ph == CHOOSE x \in DOMAIN values : At(k, x)
            IN SubSeq(s, i, k - 1) \o values[ph] \o SubstituteFrom(s, k + Len(ph), values)

\* C20: the reply body is the chosen template with every {subject}, {summary}
\* and {from} replaced at once by its value taken as a plain string: a value
\* that contains a placeholder or a replacement pattern stands in the body as
\* it is, and a placeholder without a value stays as it is.
SubstitutionLiteralAndSimultaneous ==
    \A e \in Exchanges :
        (exch[e].call = "generateReply" /\ exch[e].pc = "send" /\ exch[e].msg \in Rows) =>
            /\ (service = "module" /\ ~exch[e].caught) =>
                  exch[e].body.text =
                      SubstituteFrom(TemplateText(exch[e].body.template), 1,
                          [ph \in {"{subject}", "{summary}", "{from}"} |->
                              CASE ph = "{subject}" -> exch[e].headers.subject
                                [] ph = "{summary}" -> db[exch[e].msg].tone_analysis.json[6]
                                [] OTHER -> exch[e].headers.from])
            /\ (service = "class" /\ exch[e].caught) =>
                  exch[e].body.text =
                      SubstituteFrom(EmailService_DEFAULT_REPLY, 1,
                          [ph \in {"{subject}", "{from}"} |->
                              IF ph = "{subject}" THEN exch[e].headers.subject
                              ELSE exch[e].headers.from])

(***************************************************************************)
(* Persistence                                                             *)
(***************************************************************************)
\* C21: persisting an analysis is idempotent.  A call of saveAnalysisResults
\* adds no record and changes no record but the message's; and a second call
\* with the same message, after a call that persisted it, leaves the table
\* exactly as the first call left it.
SavingTwiceIsSavingOnce ==
    [][\A e \in Exchanges :
          /\ (exch[e].pc \in {"save", "saved"} /\ exch'[e].pc \in {"saved", "resaved"}) =>
                /\ Len(db') = Len(db)
                /\ \A id \in DOMAIN db : id # exch[e].body.email.id => db'[id] = db[id]
          /\ (exch[e].pc = "saved" /\ exch'[e].pc = "resaved" /\ ~exch[e].dbFailed) =>
                /\ db' = db
                /\ trail' = trail]_vars

\* C21 witness: the message was persisted twice, over a row that held no
\* analysis, next to the row of another message
SavedTwiceWitness ==
    \E e \in Exchanges :
        /\ exch[e].pc = "resaved"
        /\ ~exch[e].dbFailed
        /\ exch[e].msg = 1
        /\ Len(db) > 1
        /\ db[1].status = "PROCESSED"
        /\ exch[e].body.email.toneAnalysis # Null
        /\ db[1].tone_analysis = toJson(exch[e].body.email.toneAnalysis)
        /\ <<"PROCESSING", "PROCESSED">> \in trail[1].moves

\* identity and envelope of an EmailMessage, and the envelope of a row
Envelope(email) ==
    <<email.id, email.from, email.to, email.subject, email.content, email.receivedDate>>

RowEnvelope(id, row) ==
    <<id, row.from_address, row.to_address, row.subject, row.content, row.received_date>>

\* exchange e makes a step of processEmail over a body that is an EmailMessage
ProcessesMessage(e) ==
    /\ exch[e].pc = "start"
    /\ exch[e].body.kind = "email"
    /\ exch'[e].pc \in {"processed", "failed"}

\* C22: identity and envelope are immutable through the pipeline.  No step
\* changes id, from, to, subject, content or receivedDate of a stored row or
\* of the EmailMessage in an exchange; a row and the message in memory agree
\* on them; and processEmail over an EmailMessage leaves a message that
\* differs from it in toneAnalysis, processedDate and status at most, also
\* when it fails.
IdentityAndEnvelopeKept ==
    [][/\ \A id \in DOMAIN db :
             id \in DOMAIN db' /\ RowEnvelope(id, db'[id]) = RowEnvelope(id, db[id])
       /\ \A e \in Exchanges :
             /\ (exch[e].body.kind = "email" /\ exch'[e].body.kind = "email") =>
                    Envelope(exch'[e].body.email) = Envelope(exch[e].body.email)
             /\ (exch'[e].body.kind = "email" /\ exch'[e].body.email.id \in DOMAIN db') =>
                    Envelope(exch'[e].body.email) =
                        RowEnvelope(exch'[e].body.email.id, db'[exch'[e].body.email.id])
             /\ ProcessesMessage(e) =>
                    /\ exch'[e].body.kind = "email"
                    /\ \E t \in {exch'[e].body.email.toneAnalysis},
                          d \in {exch'[e].body.email.processedDate},
                          s \in {exch'[e].body.email.status} :
                          exch'[e].body.email =
                              [exch[e].body.email EXCEPT !.toneAnalysis = t, !.processedDate = d,
                                                         !.status = s]]_vars

\* C22 witness: processEmail has run again over a message that had its id,
\* and left a later processedDate
ProcessedAgainWitness ==
    \E e \in Exchanges :
        /\ exch[e].call = "processEmail"
        /\ exch[e].result = "returned"
        /\ exch[e].body.kind = "email"
        /\ exch[e].body.email.id \in Rows
        /\ exch[e].body.email.receivedDate = 1
        /\ exch[e].body.email.processedDate = 2
        /\ db[exch[e].body.email.id].received_date = 1

\* C23: processedDate and toneAnalysis are null until PROCESSED.  In every
\* state of the table a row whose status is RECEIVED or PROCESSING has no
\* tone_analysis and no processed_date, and a row whose status is PROCESSED
\* or REPLIED has both.
AnalysisNullUntilProcessed ==
    \A id \in Rows :
        /\ db[id].status \in {"RECEIVED", "PROCESSING"} =>
              (db[id].tone_analysis = Null /\ db[id].processed_date = NullDate)
        /\ db[id].status \in {"PROCESSED", "REPLIED"} =>
              (db[id].tone_analysis # Null /\ db[id].processed_date # NullDate)

(***************************************************************************)
(* Messages processed at the same time                                     *)
(***************************************************************************)
\* the row a step of exchange e works on: the row of the EmailMessage in its
\* body, the row its call has just reported, or the row it is about to insert
OwnRow(e) ==
    IF exch[e].body.kind = "email" THEN exch[e].body.email.id
    ELSE IF exch[e].body.kind = "reply" THEN exch[e].msg
    ELSE Len(db) + 1

\* a row that stands for the message of somebody else
OtherRow ==
    [from_address |-> "other@example.com", to_address |-> "support@example.com",
     subject |-> "", content |-> [type |-> "string", text |-> ""], received_date |-> 1,
     status |-> "RECEIVED", tone_analysis |-> Null, processed_date |-> NullDate]

\* the table as the message of row own would see it were it processed alone:
\* every other row holds an untouched message
Isolated(st, own) ==
    [db |-> [id \in DOMAIN st.db |-> IF id = own THEN st.db[id] ELSE OtherRow],
     trail |-> [id \in DOMAIN st.db |->
                    IF id = own THEN st.trail[id] ELSE [moves |-> {}, analysed |-> FALSE]]]

\* outcome o is what the step of exchange e has done to its exchange and to
\* its row
SameOutcome(e, o) ==
    /\ exch'[e].body = o.body
    /\ exch'[e].result = o.result
    /\ exch'[e].msg = o.msg
    /\ exch'[e].caught = o.caught
    /\ o.msg \in DOMAIN o.st.db => (o.msg \in DOMAIN db' /\ db'[o.msg] = o.st.db[o.msg])

\* the step of exchange e is one its call could have made with the message
\* alone in the table
AsIfAlone(e) ==
    LET alone == Isolated(store, OwnRow(e))
    IN CASE exch[e].pc = "start" /\ service = "module" ->
                \E f \in Faults : SameOutcome(e, processEmail(alone, exch[e], Now(exch[e].body), f))
         [] exch[e].pc = "start" /\ service = "class" ->
                \E f \in EmailService_Faults :
                    SameOutcome(e, EmailService_processEmail(alone, exch[e], Now(exch[e].body), f))
         [] exch[e].pc = "reply" /\ service = "module" ->
                \E f \in UpdateFaults : SameOutcome(e, generateReply(alone, exch[e], f))
         [] exch[e].pc = "await" ->
                \E advanced \in AdvancedReplyOutcomes, priorCount \in PriorCounts, f \in UpdateFaults :
                    SameOutcome(e, EmailService_generateReply(alone, exch[e], advanced, priorCount, f))
         [] OTHER -> db' = db

Enumerated(v, enumeration) == v.type = "string" /\ v.text \in enumeration

\* C25: ToneAnalysis has no unset or out-of-domain state.  Every ToneAnalysis
\* that the constructor, fromJson or createDefault has made has a sentiment,
\* an urgency and a formality of their enumerations.
ToneAnalysisWithinDomain ==
    \A e \in Exchanges :
        exch[e].body.kind = "tone" =>
            /\ Enumerated(exch[e].body.tone.sentiment, Sentiment)
            /\ Enumerated(exch[e].body.tone.urgency, Urgency)
            /\ Enumerated(exch[e].body.tone.formality, Formality)

(***************************************************************************)
(* The template endpoint                                                   *)
(***************************************************************************)
\* the templates the service of a request has loaded
LoadedKeys(request) ==
    IF falsy(request.advancedReplyService) \/ falsy(member(request.advancedReplyService, "templates"))
    THEN {}
    ELSE DOMAIN member(request.advancedReplyService, "templates").members

\* the template service of a request is initialised
Initialised(request) ==
    ~falsy(request.advancedReplyService) /\ ~falsy(member(request.advancedReplyService, "templates"))

\* C26: a template missing from the store is a not-found error.  GET
\* /api/templates/:key answers 503 while the template service is not
\* initialised, 404 for every key that is not a loaded template, and 200 with
\* a template only for a key of the loaded templates.
MissingTemplateIsNotFound ==
    \A e \in Exchanges :
        exch[e].body.kind = "response" =>
            /\ ~Initialised(exch[e].body.request) => exch[e].body.status = 503
            /\ (Initialised(exch[e].body.request)
                  /\ exch[e].body.request.key \notin LoadedKeys(exch[e].body.request))
                  => exch[e].body.status = 404
            /\ exch[e].body.status = 200
                  => exch[e].body.request.key \in LoadedKeys(exch[e].body.request)

\* C27: the store and the message agree after processEmail.  When
\* processEmail has returned normally, the row of the message was left with
\* status PROCESSED and with the tone analysis and the processedDate of the
\* EmailMessage that the call placed in the exchange body.
StoreAgreesWithProcessedMessage ==
    \A e \in Exchanges :
        (exch[e].call = "processEmail" /\ exch[e].result = "returned") =>
            /\ exch[e].body.kind = "email"
            /\ exch[e].wrote # Null
            /\ exch[e].wrote.status = "PROCESSED"
            /\ exch[e].wrote.tone_analysis = toJson(exch[e].body.email.toneAnalysis)
            /\ exch[e].wrote.processed_date = exch[e].body.email.processedDate

\* C28: the urgency is decided by the first keyword set that matches, in the
\* order (urgent, asap, immediately) -> HIGH, (critical, emergency) ->
\* CRITICAL, (when you have time, no rush) -> LOW, else NORMAL, whatever
\* sentiment and formality keywords the text has: a text with a HIGH keyword
\* and a CRITICAL keyword is HIGH, and CRITICAL is given only to a text
\* without HIGH keyword.
UrgencyByFirstKeywordSet ==
    \A e \in Classified :
        /\ ToneOf(e).urgency =
              IF Mentions(TextOf(e), {"urgent", "asap", "immediately"}) THEN "HIGH"
              ELSE IF Mentions(TextOf(e), {"critical", "emergency"}) THEN "CRITICAL"
              ELSE IF Mentions(TextOf(e), {"when you have time", "no rush"}) THEN "LOW"
              ELSE "NORMAL"
        /\ (Mentions(TextOf(e), {"urgent", "asap", "immediately"})
              /\ Mentions(TextOf(e), {"critical", "emergency"})) => ToneOf(e).urgency = "HIGH"
        /\ ToneOf(e).urgency = "CRITICAL" => ~Mentions(TextOf(e), {"urgent", "asap", "immediately"})

\* C28 witness: a text with keywords of all three sets and informal words was
\* classified HIGH
HighBeforeCriticalWitness ==
    \E e \in Classified :
        /\ Mentions(TextOf(e), {"urgent"})
        /\ Mentions(TextOf(e), {"emergency"})
        /\ Mentions(TextOf(e), {"no rush"})
        /\ ToneOf(e).formality = "INFORMAL"
        /\ ToneOf(e).urgency = "HIGH"

\* C29: the templates of the module-level route.  When generateReply of the
\* module-level service returns in the route, a reply it built without its
\* catch block is made from URGENT_REPLY, HIGH_PRIORITY_REPLY,
\* VERY_NEGATIVE_REPLY or NEGATIVE_REPLY, never from POSITIVE_REPLY or
\* DEFAULT_REPLY; DEFAULT_REPLY is the body only after the catch block ran,
\* and then the row was not set to REPLIED.
RouteRepliesFromFourTemplates ==
    [][\A e \in Exchanges :
          (service = "module" /\ exch[e].pc = "reply" /\ exch'[e].pc = "send") =>
              /\ exch'[e].body.kind = "reply"
              /\ ~exch'[e].caught =>
                    exch'[e].body.template \in {"URGENT_REPLY", "HIGH_PRIORITY_REPLY",
                                                "VERY_NEGATIVE_REPLY", "NEGATIVE_REPLY"}
              /\ exch'[e].body.template = "DEFAULT_REPLY" <=> exch'[e].caught
              /\ exch'[e].caught =>
                    /\ exch'[e].body.text = DEFAULT_REPLY
                    /\ db' = db
                    /\ exch'[e].msg \in DOMAIN db => db'[exch'[e].msg].status # "REPLIED"]_vars

\* C29 witness: the catch block of the module-level generateReply answered
\* with DEFAULT_REPLY and the row stayed PROCESSED
FallbackLeavesProcessedWitness ==
    \E e \in Exchanges :
        /\ service = "module"
        /\ exch[e].call = "generateReply"
        /\ exch[e].caught
        /\ exch[e].body.template = "DEFAULT_REPLY"
        /\ exch[e].msg \in DOMAIN db
        /\ db[exch[e].msg].status = "PROCESSED"

(***************************************************************************)
(* Messages read back from the table                                       *)
(***************************************************************************)
\* C30: the round trip through JSON and the table.  The analysis of a message
\* that was saved and read back with EmailMessage.fromDb has the six fields
\* that were saved and is still a ToneAnalysis; saving the message again
\* with saveAnalysisResults, when the table can be written, returns without
\* the catch block and leaves the analysis in the row; processing it again
\* returns when the table can be written.
ReadBackCanBeSavedAgain ==
    \A e \in Exchanges :
        /\ (exch[e].call \in {"fromDb", "saveAnalysisResults"}
              /\ exch[e].body.email.toneAnalysis # Null) =>
              /\ toJson(exch[e].body.email.toneAnalysis) = db[exch[e].body.email.id].tone_analysis
              /\ ~isPlainObject(exch[e].body.email.toneAnalysis)
        /\ (exch[e].call = "saveAnalysisResults" /\ ~exch[e].dbFailed) =>
              /\ exch[e].result = "returned"
              /\ ~exch[e].caught
        /\ (exch[e].call = "processEmail" /\ ~exch[e].dbFailed /\ ~exch[e].caught) =>
              /\ exch[e].result = "returned"
              /\ exch[e].wrote # Null
              /\ exch[e].wrote.tone_analysis = toJson(exch[e].body.email.toneAnalysis)

\* the three categories of a ToneAnalysis are of their enumerations
EnumeratedCategories(t) ==
    /\ Enumerated(t.sentiment, Sentiment)
    /\ Enumerated(t.urgency, Urgency)
    /\ Enumerated(t.formality, Formality)

\* the first half of C30 for the objects of ToneSpec: fromJson(t.toJson()) has
\* the six fields of t when the categories of t are enumerated and its
\* emotions, topTopics and summaryText are an object, an array and a string
RoundTripKeepsWellFormedAnalysis ==
    \A e \in Exchanges :
        (/\ exch[e].body.kind = "roundtrip"
         /\ EnumeratedCategories(exch[e].body.tone)
         /\ exch[e].body.tone.emotions.type = "object"
         /\ exch[e].body.tone.topTopics.type = "array"
         /\ exch[e].body.tone.summaryText.type = "string") =>
            exch[e].body.back = exch[e].body.tone

\* the same for every ToneAnalysis with enumerated categories, the ones made
\* with emotions or summaryText null included
RoundTripKeepsEveryAnalysis ==
    \A e \in Exchanges :
        (exch[e].body.kind = "roundtrip" /\ EnumeratedCategories(exch[e].body.tone)) =>
            exch[e].body.back = exch[e].body.tone

====
